---------------------------- MODULE Spec2Model ----------------------------
(***************************************************************************)
(* A model of librustc/ty/maps/on_disk_cache.rs: the incremental           *)
(* compilation cache (OnDiskCache), its encoder (CacheEncoder) and its     *)
(* decoder (CacheDecoder).                                                 *)
(*                                                                         *)
(* Two consecutive compiler processes are modelled.  A process owns one    *)
(* store (the OnDiskCache struct), one session environment (what TyCtxt    *)
(* hands to the cache: crate graph, query caches, interpreter allocations) *)
(* and a number of worker threads.  At shutdown the process serializes the *)
(* store; the next process opens the produced bytes with OnDiskCache::new. *)
(*                                                                         *)
(* The byte stream is a sequence of bytes (0..255).  Variable-width        *)
(* integers are LEB128 as written by the opaque encoder; the footer        *)
(* position is the fixed 8-byte little-endian IntEncodedWithFixedSize.     *)
(***************************************************************************)
EXTENDS Integers, Sequences, FiniteSets, TLC

(***************************************************************************)
(* Bounds of the model.                                                    *)
(***************************************************************************)
\* dep-node indices (query identities) are 0 .. NumIds-1
NumIds == 2
\* worker threads of a process are 1 .. NumThreads
NumThreads == 2
\* longest diagnostics list a single store call passes
MaxDiagLen == 1
\* longest list the accumulator holds for one identity
MaxAccLen == 2
\* interpreter allocation ids of a writing session are 0 .. NumAllocs-1
NumAllocs == 3
\* external crates are numbered 1 .. NumCrates
NumCrates == 2

(***************************************************************************)
(* Program constants.                                                      *)
(***************************************************************************)
\* TAG_FILE_FOOTER: u128 = 0xC0FFEE_C0FFEE_C0FFEE_C0FFEE_C0FFEE, as the
\* LEB128 bytes the opaque encoder writes for it (the number itself is
\* wider than the integers of the model checker).
TAG_FILE_FOOTER ==
    <<238, 255, 131, 246, 254, 159, 176, 247, 255,
      129, 187, 255, 143, 216, 251, 255, 192, 1>>

ENCODED_SIZE == 8

LOCAL_CRATE == 0

\* the LEB128 integers of at most this many bytes are evaluated exactly
MaxLebBytes == 3
\* a decoded integer too wide for the model checker is kept as this value;
\* it is larger than every position of every stream of the model
Saturated == 1000000

(***************************************************************************)
(* Small helpers on sequences and functions.                               *)
(***************************************************************************)
Range(s) == { s[i] : i \in 1..Len(s) }

Min(a, b) == IF a <= b THEN a ELSE b

\* the absent value of an Option, of a map lookup, of a result
None == [none |-> TRUE]

Some(v) == [some |-> v]

IsSome(o) == "some" \in DOMAIN o

\* the outcome of a fatal abort (panic, bug!, failed assertion)
Abort == [abort |-> TRUE]

IsAbort(o) == "abort" \in DOMAIN o

EmptyMap == [x \in {} |-> 0]

MapPut(m, k, v) == [x \in DOMAIN m \cup {k} |-> IF x = k THEN v ELSE m[x]]

\* K applied to the value of m, which is evaluated once
Let(m, K(_)) == CHOOSE y \in { K(r) : r \in {m} } : TRUE

\* a step of a decoder followed by the rest of it: when the step m failed
\* (ok = FALSE) the failure is the result, otherwise K goes on from it
Then(m, K(_)) == CHOOSE y \in { IF r.ok THEN K(r) ELSE r : r \in {m} } : TRUE

(***************************************************************************)
(* The opaque encoder and decoder (libserialize/opaque.rs): unsigned       *)
(* LEB128 for every integer wider than a byte, one byte for u8.            *)
(***************************************************************************)
RECURSIVE Leb(_)
Leb(n) ==
    IF n < 128 THEN <<n>>
    ELSE <<(n % 128) + 128>> \o Leb(n \div 128)

\* The position after the LEB128 integer that starts at the 0-based position
\* pos of `data`; -1 when the integer runs past the end of the data.
LebExtent(data, pos) ==
    LET ends == { i \in (pos + 1)..Len(data) : data[i] < 128 }
    IN  IF ends = {} THEN -1
        ELSE CHOOSE i \in ends : \A j \in ends : i <= j

\* the integer that the LEB128 bytes spell, least significant group first
RECURSIVE LebValue(_)
LebValue(bytes) ==
    IF Len(bytes) = 1 THEN Head(bytes) % 128
    ELSE (Head(bytes) % 128) + 128 * LebValue(Tail(bytes))

\* Reads one LEB128 integer of `data` at the 0-based position pos.
\* [ok, val, pos]; ok = FALSE when the read runs past the end of the data.
\* An integer of more than MaxLebBytes bytes, or one above Saturated, is
\* kept as Saturated.
ReadLeb(data, pos) ==
    LET e == LebExtent(data, pos)
    IN  CASE e < 0 -> [ok |-> FALSE, val |-> 0, pos |-> pos]
          [] e >= 0 /\ e - pos > MaxLebBytes ->
                [ok |-> TRUE, val |-> Saturated, pos |-> e]
          [] OTHER ->
                [ok |-> TRUE,
                 val |-> Min(Saturated, LebValue(SubSeq(data, pos + 1, e))),
                 pos |-> e]

\* Reads n raw bytes.
ReadBytes(data, pos, n) ==
    IF pos + n > Len(data) THEN [ok |-> FALSE, val |-> <<>>, pos |-> pos]
    ELSE [ok |-> TRUE, val |-> SubSeq(data, pos + 1, pos + n), pos |-> pos + n]

\* Reads the LEB128 bytes of one integer without evaluating it (a u128 tag).
ReadLebBytes(data, pos) ==
    LET e == LebExtent(data, pos)
    IN  IF e < 0 THEN [ok |-> FALSE, val |-> <<>>, pos |-> pos]
        ELSE [ok |-> TRUE, val |-> SubSeq(data, pos + 1, e), pos |-> e]

(***************************************************************************)
(* Values.  A cached query result, and a list of diagnostics, is a list of *)
(* items; an item is a plain integer, a crate number or a reference to an  *)
(* interpreter allocation.  These are the payload shapes whose encoding    *)
(* CacheEncoder and CacheDecoder specialize.                               *)
(***************************************************************************)
IntItem(n) == [k |-> "Int", v |-> n]

CnumItem(c) == [k |-> "Cnum", v |-> c]

AllocItem(a) == [k |-> "Alloc", v |-> a]

\* the discriminant the derived Encodable writes for an enum variant
VariantIdx(k) == CASE k = "Int" -> 0 [] k = "Cnum" -> 1 [] k = "Alloc" -> 2

\* AllocKind::Alloc, the discriminant written before an allocation payload
AllocKindAlloc == 0

(***************************************************************************)
(* ENCODING.  The encoder state e is the CacheEncoder struct together with *)
(* the bytes written so far to the underlying opaque encoder.              *)
(***************************************************************************)
\* TyEncoder::position
Position(e) == Len(e.bytes)

\* AbsoluteBytePos::new; every position of the model fits u32
AbsoluteBytePos(pos) == pos

Emit(e, bs) == [e EXCEPT !.bytes = @ \o bs]

\* the encoder_methods! delegations to the opaque encoder
emit_usize(e, n) == Emit(e, Leb(n))

emit_u32(e, n) == Emit(e, Leb(n))

emit_u64(e, n) == Emit(e, Leb(n))

emit_u8(e, b) == Emit(e, <<b % 256>>)

\* SpecializedEncoder<CrateNum>
EncodeCrateNum(e, cnum) == emit_u32(e, cnum)

\* an AllocId encoder that counts the local indices from one
EncodeAllocRef_OneBased(e, alloc_id) ==
    IF alloc_id \in DOMAIN e.interpret_allocs
    THEN emit_usize(e, e.interpret_allocs[alloc_id])
    ELSE LET idx == Len(e.interpret_allocs_inverse) + 1
             e1  == [e EXCEPT
                       !.interpret_allocs_inverse = Append(@, alloc_id),
                       !.interpret_allocs = MapPut(@, alloc_id, idx)]
         IN  emit_usize(e1, idx)

\* SpecializedEncoder<interpret::AllocId>: the first reference to an
\* allocation gives it the next dense local index; the index is written.
EncodeAllocRef(e, alloc_id) ==
    IF alloc_id \in DOMAIN e.interpret_allocs
    THEN emit_usize(e, e.interpret_allocs[alloc_id])
    ELSE LET idx == Len(e.interpret_allocs_inverse)
             e1  == [e EXCEPT
                       !.interpret_allocs_inverse = Append(@, alloc_id),
                       !.interpret_allocs = MapPut(@, alloc_id, idx)]
         IN  emit_usize(e1, idx)

EncodeItem(e, it) ==
    LET e1 == emit_usize(e, VariantIdx(it.k))
    IN  CASE it.k = "Int"   -> emit_usize(e1, it.v)
          [] it.k = "Cnum"  -> EncodeCrateNum(e1, it.v)
          [] it.k = "Alloc" -> EncodeAllocRef(e1, it.v)

RECURSIVE EncodeItems(_, _)
EncodeItems(e, items) ==
    IF items = <<>> THEN e
    ELSE Let(EncodeItem(e, Head(items)), LAMBDA e1 :
            EncodeItems(e1, Tail(items)))

\* Encodable for a Vec: the length, then the elements
EncodeValue(e, value) == EncodeItems(emit_usize(e, Len(value)), value)

RECURSIVE EncodeAllocRefs(_, _)
EncodeAllocRefs(e, refs) ==
    IF refs = <<>> THEN e
    ELSE Let(EncodeAllocRef(e, Head(refs)), LAMBDA e1 :
            EncodeAllocRefs(e1, Tail(refs)))

\* interpret::specialized_encode_alloc_id for an AllocKind::Alloc: the kind,
\* then the allocation (its bytes, here one integer, and its relocations,
\* each a reference to an allocation)
EncodeAllocPayload(e, alloc) ==
    LET e1 == emit_usize(e, AllocKindAlloc)
        e2 == emit_usize(e1, alloc.data)
        e3 == emit_usize(e2, Len(alloc.refs))
    IN  EncodeAllocRefs(e3, alloc.refs)

\* an encode_tagged whose length field counts itself
EncodeTaggedValue_WithLength(e, tag, value) ==
    LET start_pos == Position(e)
        e1        == emit_u32(e, tag)
    IN  Let(EncodeValue(e1, value), LAMBDA e2 :
            LET end_pos == Position(e2)
            IN  emit_u64(e2, end_pos - start_pos
                               + Len(Leb(end_pos - start_pos))))

\* CacheEncoder::encode_tagged, for a record whose tag is a dep-node index
\* and whose value is a list of items
EncodeTaggedValue(e, tag, value) ==
    LET start_pos == Position(e)
        e1        == emit_u32(e, tag)
    IN  Let(EncodeValue(e1, value), LAMBDA e2 :
            LET end_pos == Position(e2)
            IN  emit_u64(e2, end_pos - start_pos))

\* Encodable for a String: the length, then the bytes
EncodeStr(e, str) == Emit(emit_usize(e, Len(str)), str)

\* one (u32, String, CrateDisambiguator) entry of the crate table
EncodeCnumEntry(e, entry) ==
    emit_u64(EncodeStr(emit_u32(e, entry[1]), entry[2]), entry[3])

RECURSIVE EncodeCnumEntries(_, _)
EncodeCnumEntries(e, entries) ==
    IF entries = <<>> THEN e
    ELSE Let(EncodeCnumEntry(e, Head(entries)), LAMBDA e1 :
            EncodeCnumEntries(e1, Tail(entries)))

\* a Vec of (SerializedDepNodeIndex, AbsoluteBytePos) or of
\* (FileMapIndex, StableFilemapId) pairs
RECURSIVE EncodePairs(_, _)
EncodePairs(e, pairs) ==
    IF pairs = <<>> THEN e
    ELSE Let(emit_u32(emit_u32(e, Head(pairs)[1]), Head(pairs)[2]),
             LAMBDA e1 : EncodePairs(e1, Tail(pairs)))

RECURSIVE EncodeInts(_, _)
EncodeInts(e, ints) ==
    IF ints = <<>> THEN e
    ELSE Let(emit_u32(e, Head(ints)), LAMBDA e1 :
            EncodeInts(e1, Tail(ints)))

\* Encodable for Footer (derived): the five fields in declaration order
EncodeFooter(e, footer) ==
    Let(EncodePairs(emit_usize(e, Len(footer.file_index_to_stable_id)),
                    footer.file_index_to_stable_id), LAMBDA e1 :
    Let(EncodeCnumEntries(emit_usize(e1, Len(footer.prev_cnums)),
                          footer.prev_cnums), LAMBDA e2 :
    Let(EncodePairs(emit_usize(e2, Len(footer.query_result_index)),
                    footer.query_result_index), LAMBDA e3 :
    Let(EncodePairs(emit_usize(e3, Len(footer.diagnostics_index)),
                    footer.diagnostics_index), LAMBDA e4 :
        EncodeInts(emit_usize(e4, Len(footer.interpret_alloc_index)),
                   footer.interpret_alloc_index)))))

\* CacheEncoder::encode_tagged(TAG_FILE_FOOTER, &Footer {..})
EncodeTaggedFooter(e, footer) ==
    LET start_pos == Position(e)
        e1        == Emit(e, TAG_FILE_FOOTER)
    IN  Let(EncodeFooter(e1, footer), LAMBDA e2 :
            LET end_pos == Position(e2)
            IN  emit_u64(e2, end_pos - start_pos))

\* (x >> i * 8) as u8, for the byte numbers i, i+1, .. 7 of x
RECURSIVE FixedSizeBytes(_, _)
FixedSizeBytes(x, i) ==
    IF i >= ENCODED_SIZE THEN <<>>
    ELSE <<x % 256>> \o FixedSizeBytes(x \div 256, i + 1)

\* SpecializedEncoder<IntEncodedWithFixedSize>: eight bytes, lowest first
EncodeIntFixedSize(e, x) == Emit(e, FixedSizeBytes(x, 0))

\* cnums.sort_unstable()
RECURSIVE InsertSorted(_, _)
InsertSorted(x, s) ==
    IF s = <<>> THEN <<x>>
    ELSE IF x <= Head(s) THEN <<x>> \o s
    ELSE <<Head(s)>> \o InsertSorted(x, Tail(s))

RECURSIVE sort_unstable(_)
sort_unstable(s) == IF s = <<>> THEN <<>> ELSE InsertSorted(Head(s), sort_unstable(Tail(s)))

\* cnums.dedup(): consecutive repeated elements are removed
RECURSIVE Dedup(_)
Dedup(s) ==
    IF Len(s) <= 1 THEN s
    ELSE IF s[1] = s[2] THEN Dedup(Tail(s))
    ELSE <<s[1]>> \o Dedup(Tail(s))

\* a crate list that is sorted and not deduplicated
sorted_cnums_including_local_crate_NoDedup(t) ==
    sort_unstable(<<LOCAL_CRATE>> \o t.crates)

\* sorted_cnums_including_local_crate: the local crate and tcx.crates(),
\* sorted, consecutive repetitions removed
sorted_cnums_including_local_crate(t) ==
    Dedup(sort_unstable(<<LOCAL_CRATE>> \o t.crates))

\* the crate table of the footer: (cnum, original_crate_name, disambiguator)
PrevCnumsOf(t) ==
    LET sorted_cnums == sorted_cnums_including_local_crate(t)
    IN  [i \in 1..Len(sorted_cnums) |->
            <<sorted_cnums[i],
              t.crate_info[sorted_cnums[i]].name,
              t.crate_info[sorted_cnums[i]].disambiguator>>]

(***************************************************************************)
(* DECODING.  The decoder state d is what a CacheDecoder can change while  *)
(* it runs: the read cursor (opaque.position), the allocation-id cache of  *)
(* the store and the interpreter's interner of the session.  What it only  *)
(* reads is taken from cx: the serialized data, the crate remap and the    *)
(* allocation index.  A decoding step returns [ok, val, d]; ok = FALSE is  *)
(* an Err or a panic, which every caller turns into a fatal abort.         *)
(***************************************************************************)
Fail(d) == [ok |-> FALSE, val |-> 0, d |-> d]

Ok(v, d) == [ok |-> TRUE, val |-> v, d |-> d]

\* usize::decode, u32::decode, u64::decode on the opaque decoder
DecodeInt(cx, d) ==
    LET r == ReadLeb(cx.data, d.pos)
    IN  IF r.ok THEN Ok(r.val, [d EXCEPT !.pos = r.pos]) ELSE Fail(d)

\* a mapping that hands out the previous session's number when the table
\* holds no current number for it (unwrap_or(cnum))
map_encoded_cnum_to_current_Keep(cx, cnum) ==
    IF cnum \notin DOMAIN cx.cnum_map THEN Abort
    ELSE IF IsSome(cx.cnum_map[cnum]) THEN cx.cnum_map[cnum]
    ELSE Some(cnum)

\* CacheDecoder::map_encoded_cnum_to_current, Some(current number) or Abort:
\* indexing the IndexVec past its end panics, an entry of None is a bug!()
map_encoded_cnum_to_current(cx, cnum) ==
    IF cnum \notin DOMAIN cx.cnum_map THEN Abort
    ELSE IF IsSome(cx.cnum_map[cnum]) THEN cx.cnum_map[cnum]
    ELSE Abort

\* a decoder that takes the crate number of the writing session as it is
DecodeCrateNum_Unmapped(cx, d) ==
    Then(DecodeInt(cx, d), LAMBDA r : Ok(r.val, r.d))

\* SpecializedDecoder<CrateNum> (implement_ty_decoder!): the previous
\* session's number is read and mapped to the current session
DecodeCrateNum(cx, d) ==
    Then(DecodeInt(cx, d), LAMBDA r :
        Let(map_encoded_cnum_to_current(cx, r.val), LAMBDA cur :
            IF IsAbort(cur) THEN Fail(r.d) ELSE Ok(cur.some, r.d)))

\* InterpretInterner::reserve: a fresh allocation id
Reserve(interner) == Cardinality(DOMAIN interner)

RECURSIVE DecodeAllocRef(_, _)
RECURSIVE DecodeAllocRefs(_, _, _)

\* `count` allocation references, one after the other; every reference
\* takes at least one byte, so a count beyond the bytes that are left ends
\* in a failed read
DecodeAllocRefs(cx, d, count) ==
    CASE count = 0 -> Ok(<<>>, d)
      [] count # 0 /\ count > Len(cx.data) - d.pos -> Fail(d)
      [] OTHER ->
            Then(DecodeAllocRef(cx, d), LAMBDA r :
            Then(DecodeAllocRefs(cx, r.d, count - 1), LAMBDA rest :
                Ok(<<r.val>> \o rest.val, rest.d)))

\* a cache callback that inserts without the assert!
CacheAllocId_Overwrite(d, idx, alloc_id) ==
    Ok(alloc_id, [d EXCEPT !.interpret_alloc_cache = MapPut(@, idx, alloc_id)])

\* The cache callback of SpecializedDecoder<interpret::AllocId>:
\* assert!(interpret_alloc_cache.insert(idx, alloc_id).is_none())
CacheAllocId(d, idx, alloc_id) ==
    IF idx \in DOMAIN d.interpret_alloc_cache THEN Fail(d)
    ELSE Ok(alloc_id,
            [d EXCEPT !.interpret_alloc_cache = MapPut(@, idx, alloc_id)])

\* The start of interpret::specialized_decode_alloc_id for an
\* AllocKind::Alloc: the kind is read, an id is reserved and handed to the
\* cache callback, then the contents and the number of relocations are read
AllocHead(cx, d, idx) ==
    Then(DecodeInt(cx, d), LAMBDA kind :
        IF kind.val # AllocKindAlloc THEN Fail(kind.d)
        ELSE
        Let(Reserve(kind.d.interner), LAMBDA alloc_id :
        Then(CacheAllocId([kind.d EXCEPT !.interner =
                              MapPut(@, alloc_id, [reserved |-> TRUE])],
                          idx, alloc_id), LAMBDA cached :
        Then(DecodeInt(cx, cached.d), LAMBDA data :
        Then(DecodeInt(cx, data.d), LAMBDA len :
            Ok([alloc_id |-> alloc_id, data |-> data.val, len |-> len.val],
               len.d))))))

\* interpret::specialized_decode_alloc_id for an AllocKind::Alloc, run at the
\* position of the record: an id is reserved and handed to the cache
\* callback before the payload is decoded (so that a cycle finds it), then
\* the allocation is interned at the reserved id
DecodeAllocPayload(cx, d, idx) ==
    Then(AllocHead(cx, d, idx), LAMBDA head :
    Then(DecodeAllocRefs(cx, head.d, head.val.len), LAMBDA refs :
        Ok(head.val.alloc_id,
           [refs.d EXCEPT !.interner[head.val.alloc_id] =
               [data |-> head.val.data, refs |-> refs.val]])))

\* CacheDecoder::with_position(pos, f): the cursor is moved to pos, f is
\* run, and the cursor is put back where it was, whatever f returned
with_position(cx, d, pos, F(_)) ==
    \* debug_assert!(pos < self.opaque.data.len())
    IF cx.debug_assertions /\ ~(pos < Len(cx.data)) THEN Fail(d)
    ELSE [F([d EXCEPT !.pos = pos]) EXCEPT !.d.pos = d.pos]

\* an AllocId decoder that seeks to the record and does not come back
DecodeAllocRef_NoRestore(cx, d) ==
    LET idx == DecodeInt(cx, d)
    IN  CASE ~idx.ok -> idx
          [] idx.ok /\ idx.val \in DOMAIN idx.d.interpret_alloc_cache ->
                Ok(idx.d.interpret_alloc_cache[idx.val], idx.d)
          [] idx.ok /\ idx.val \notin DOMAIN idx.d.interpret_alloc_cache
                /\ idx.val >= Len(cx.prev_interpret_alloc_index) ->
                Fail(idx.d)
          [] OTHER ->
                DecodeAllocPayload(
                    cx,
                    [idx.d EXCEPT !.pos = cx.prev_interpret_alloc_index[idx.val + 1]],
                    idx.val)

\* SpecializedDecoder<interpret::AllocId>
DecodeAllocRef(cx, d) ==
    LET idx == DecodeInt(cx, d)
    IN  CASE ~idx.ok -> idx
          [] idx.ok /\ idx.val \in DOMAIN idx.d.interpret_alloc_cache ->
                Ok(idx.d.interpret_alloc_cache[idx.val], idx.d)
          [] idx.ok /\ idx.val \notin DOMAIN idx.d.interpret_alloc_cache
                /\ idx.val >= Len(cx.prev_interpret_alloc_index) ->
                Fail(idx.d)
          [] OTHER ->
                with_position(cx, idx.d,
                              cx.prev_interpret_alloc_index[idx.val + 1],
                              LAMBDA this :
                                  DecodeAllocPayload(cx, this, idx.val))

\* Decodable for an item (derived): the discriminant, then the payload
DecodeItem(cx, d) ==
    LET variant == DecodeInt(cx, d)
    IN  CASE ~variant.ok -> variant
          [] variant.ok /\ variant.val = VariantIdx("Int") ->
                Then(DecodeInt(cx, variant.d),
                     LAMBDA r : Ok(IntItem(r.val), r.d))
          [] variant.ok /\ variant.val = VariantIdx("Cnum") ->
                Then(DecodeCrateNum(cx, variant.d),
                     LAMBDA r : Ok(CnumItem(r.val), r.d))
          [] variant.ok /\ variant.val = VariantIdx("Alloc") ->
                Then(DecodeAllocRef(cx, variant.d),
                     LAMBDA r : Ok(AllocItem(r.val), r.d))
          [] OTHER -> Fail(variant.d)

\* `count` items; every item takes at least one byte, so a count beyond the
\* bytes that are left ends in a failed read
RECURSIVE DecodeItems(_, _, _)
DecodeItems(cx, d, count) ==
    CASE count = 0 -> Ok(<<>>, d)
      [] count # 0 /\ count > Len(cx.data) - d.pos -> Fail(d)
      [] OTHER ->
            Then(DecodeItem(cx, d), LAMBDA r :
            Then(DecodeItems(cx, r.d, count - 1), LAMBDA rest :
                Ok(<<r.val>> \o rest.val, rest.d)))

\* Decodable for a Vec: the length, then the elements
DecodeValue(cx, d) ==
    LET len == DecodeInt(cx, d)
    IN  IF len.ok THEN DecodeItems(cx, len.d, len.val) ELSE len

\* a decode_tagged that does not look at the trailing length
decode_tagged_NoLength(cx, d, expected_tag) ==
    LET actual_tag == DecodeInt(cx, d)
    IN  CASE ~actual_tag.ok -> actual_tag
          [] actual_tag.ok /\ actual_tag.val # expected_tag ->
                Fail(actual_tag.d)
          [] OTHER ->
                Then(DecodeValue(cx, actual_tag.d), LAMBDA value :
                Then(DecodeInt(cx, value.d), LAMBDA expected_len :
                    Ok(value.val, expected_len.d)))

\* decode_tagged for a record whose tag is a dep-node index and whose value
\* is a list of items: the tag is read and compared (assert_eq!), the value
\* is decoded, the trailing length is read and compared (assert_eq!) with
\* the number of bytes consumed by tag and value
decode_tagged(cx, d, expected_tag) ==
    LET start_pos  == d.pos
        actual_tag == DecodeInt(cx, d)
    IN  CASE ~actual_tag.ok -> actual_tag
          [] actual_tag.ok /\ actual_tag.val # expected_tag ->
                Fail(actual_tag.d)
          [] OTHER ->
                Then(DecodeValue(cx, actual_tag.d), LAMBDA value :
                    LET end_pos      == value.d.pos
                        expected_len == DecodeInt(cx, value.d)
                    IN  CASE ~expected_len.ok -> expected_len
                          [] expected_len.ok
                                /\ end_pos - start_pos # expected_len.val ->
                                Fail(expected_len.d)
                          [] OTHER -> Ok(value.val, expected_len.d))

(***************************************************************************)
(* Decoding the footer, with the plain opaque decoder of OnDiskCache::new. *)
(* A read returns [ok, val, pos].                                          *)
(***************************************************************************)
ReadFail(pos) == [ok |-> FALSE, val |-> 0, pos |-> pos]

ReadOk(v, pos) == [ok |-> TRUE, val |-> v, pos |-> pos]

\* one (u32, u32) pair
ReadPair(data, pos) ==
    Then(ReadLeb(data, pos), LAMBDA a :
    Then(ReadLeb(data, a.pos), LAMBDA b :
        ReadOk(<<a.val, b.val>>, b.pos)))

\* `count` pairs; every element of a list takes at least one byte, so a
\* count beyond the bytes that are left ends in a failed read
RECURSIVE ReadPairs(_, _, _)
ReadPairs(data, pos, count) ==
    CASE count = 0 -> ReadOk(<<>>, pos)
      [] count # 0 /\ count > Len(data) - pos -> ReadFail(pos)
      [] OTHER ->
            Then(ReadPair(data, pos), LAMBDA pair :
                Then(ReadPairs(data, pair.pos, count - 1), LAMBDA rest :
                   ReadOk(<<pair.val>> \o rest.val, rest.pos)))

RECURSIVE ReadInts(_, _, _)
ReadInts(data, pos, count) ==
    CASE count = 0 -> ReadOk(<<>>, pos)
      [] count # 0 /\ count > Len(data) - pos -> ReadFail(pos)
      [] OTHER ->
            Then(ReadLeb(data, pos), LAMBDA a :
                Then(ReadInts(data, a.pos, count - 1), LAMBDA rest :
                   ReadOk(<<a.val>> \o rest.val, rest.pos)))

\* Decodable for a String: the length, then the bytes
ReadStr(data, pos) ==
    Then(ReadLeb(data, pos), LAMBDA len : ReadBytes(data, len.pos, len.val))

\* one (u32, String, CrateDisambiguator) entry of the crate table
ReadCnumEntry(data, pos) ==
    Then(ReadLeb(data, pos), LAMBDA cnum :
    Then(ReadStr(data, cnum.pos), LAMBDA name :
    Then(ReadLeb(data, name.pos), LAMBDA dis :
        ReadOk(<<cnum.val, name.val, dis.val>>, dis.pos))))

RECURSIVE ReadCnumEntries(_, _, _)
ReadCnumEntries(data, pos, count) ==
    CASE count = 0 -> ReadOk(<<>>, pos)
      [] count # 0 /\ count > Len(data) - pos -> ReadFail(pos)
      [] OTHER ->
            Then(ReadCnumEntry(data, pos), LAMBDA entry :
                Then(ReadCnumEntries(data, entry.pos, count - 1), LAMBDA rest :
                   ReadOk(<<entry.val>> \o rest.val, rest.pos)))

\* Decodable for a Vec: the length, then the elements
ReadPairVec(data, pos) ==
    Then(ReadLeb(data, pos), LAMBDA len : ReadPairs(data, len.pos, len.val))

ReadCnumVec(data, pos) ==
    Then(ReadLeb(data, pos), LAMBDA len :
        ReadCnumEntries(data, len.pos, len.val))

ReadIntVec(data, pos) ==
    Then(ReadLeb(data, pos), LAMBDA len : ReadInts(data, len.pos, len.val))

\* Decodable for Footer (derived): the five fields in declaration order
ReadFooter(data, pos) ==
    Then(ReadPairVec(data, pos), LAMBDA f1 :
    Then(ReadCnumVec(data, f1.pos), LAMBDA f2 :
    Then(ReadPairVec(data, f2.pos), LAMBDA f3 :
    Then(ReadPairVec(data, f3.pos), LAMBDA f4 :
    Then(ReadIntVec(data, f4.pos), LAMBDA f5 :
        ReadOk([file_index_to_stable_id |-> f1.val,
                prev_cnums              |-> f2.val,
                query_result_index      |-> f3.val,
                diagnostics_index       |-> f4.val,
                interpret_alloc_index   |-> f5.val],
               f5.pos))))))

\* decode_tagged(&mut decoder, TAG_FILE_FOOTER)
decode_tagged_footer(data, pos) ==
    Let(pos, LAMBDA start_pos :
    Then(ReadLebBytes(data, pos), LAMBDA actual_tag :
        IF actual_tag.val # TAG_FILE_FOOTER THEN ReadFail(actual_tag.pos)
        ELSE
        Then(ReadFooter(data, actual_tag.pos), LAMBDA value :
        Let(value.pos, LAMBDA end_pos :
        Then(ReadLeb(data, value.pos), LAMBDA expected_len :
            IF end_pos - start_pos # expected_len.val
            THEN ReadFail(expected_len.pos)
            ELSE ReadOk(value.val, expected_len.pos))))))

\* value |= (byte as u64) << (i * 8) over the bytes i, i+1, .. 7
RECURSIVE FixedSizeValue(_, _)
FixedSizeValue(bytes, i) ==
    IF i > ENCODED_SIZE THEN 0
    ELSE Let(FixedSizeValue(bytes, i + 1), LAMBDA high :
            IF high >= Saturated \div 256 THEN Saturated
            ELSE bytes[i] + 256 * high)

\* SpecializedDecoder<IntEncodedWithFixedSize>
DecodeIntFixedSize(data, pos) ==
    Then(ReadBytes(data, pos, ENCODED_SIZE), LAMBDA r :
        ReadOk(FixedSizeValue(r.val, 1), r.pos))

\* Vec<(K, V)>::into_iter().collect::<FxHashMap>(): a later pair with the
\* same key replaces an earlier one
RECURSIVE CollectMap(_)
CollectMap(pairs) ==
    IF pairs = <<>> THEN EmptyMap
    ELSE MapPut(CollectMap(SubSeq(pairs, 1, Len(pairs) - 1)),
                pairs[Len(pairs)][1], pairs[Len(pairs)][2])

(***************************************************************************)
(* STATE                                                                   *)
(***************************************************************************)
VARIABLES
    store,              \* the OnDiskCache struct of the running process
    tcx,                \* the session: what TyCtxt and the driver supply
    enc,                \* the CacheEncoder and the locals of serialize
    th,                 \* the worker threads inside load_indexed
    phase,              \* "active", "serializing", "serialized", "aborted"
    trapped,            \* a store call hit its assertion
    prev,               \* history: the session that wrote serialized_data
    debug_assertions    \* the build: are debug_assert!s compiled in?

vars == <<store, tcx, enc, th, phase, trapped, prev, debug_assertions>>

Ids == 0..(NumIds - 1)

Threads == 1..NumThreads

\* the two indices load_indexed is called with
QueryResults == "query result"

Diagnostics == "diagnostics"

(***************************************************************************)
(* OnDiskCache::new_empty and OnDiskCache::new                             *)
(***************************************************************************)
new_empty ==
    [serialized_data            |-> <<>>,
     file_index_to_stable_id    |-> EmptyMap,
     file_index_to_file         |-> EmptyMap,
     prev_cnums                 |-> <<>>,
     cnum_map                   |-> None,
     current_diagnostics        |-> EmptyMap,
     query_result_index         |-> EmptyMap,
     prev_diagnostics_index     |-> EmptyMap,
     synthetic_expansion_infos  |-> EmptyMap,
     prev_interpret_alloc_index |-> <<>>,
     interpret_alloc_cache      |-> EmptyMap]

\* the position of the footer, read from the last 8 bytes; data.len() - 8
\* underflows (a panic, or a position past the end) on a shorter buffer
FooterPosOf(data) ==
    IF Len(data) < ENCODED_SIZE THEN ReadFail(0)
    ELSE DecodeIntFixedSize(data, Len(data) - ENCODED_SIZE)

\* the store that `new` builds from the decoded footer
StoreOf(data, footer) ==
    [serialized_data            |-> data,
     file_index_to_stable_id    |-> CollectMap(footer.file_index_to_stable_id),
     file_index_to_file         |-> EmptyMap,
     prev_cnums                 |-> footer.prev_cnums,
     cnum_map                   |-> None,
     current_diagnostics        |-> EmptyMap,
     query_result_index         |-> CollectMap(footer.query_result_index),
     prev_diagnostics_index     |-> CollectMap(footer.diagnostics_index),
     synthetic_expansion_infos  |-> EmptyMap,
     prev_interpret_alloc_index |-> footer.interpret_alloc_index,
     interpret_alloc_cache      |-> EmptyMap]

\* a `new` that falls back to the empty store when the footer cannot be read
new_OrEmpty(data) ==
    Let(Then(FooterPosOf(data), LAMBDA query_result_index_pos :
             decode_tagged_footer(data, query_result_index_pos.val)),
        LAMBDA footer :
            IF footer.ok THEN StoreOf(data, footer.val) ELSE new_empty)

\* OnDiskCache::new; Abort when one of its two expect()s fails
new(data) ==
    Let(Then(FooterPosOf(data), LAMBDA query_result_index_pos :
             decode_tagged_footer(data, query_result_index_pos.val)),
        LAMBDA footer :
            IF footer.ok THEN StoreOf(data, footer.val) ELSE Abort)

(***************************************************************************)
(* OnDiskCache::compute_cnum_map                                           *)
(***************************************************************************)
\* the FxHashMap from (name, disambiguator) to the current CrateNum, built
\* from tcx.all_crate_nums(LOCAL_CRATE); the entry of a later crate of the
\* list replaces the entry of an earlier one with the same key
RECURSIVE CurrentCnums(_, _)
CurrentCnums(t, cnums) ==
    IF cnums = <<>> THEN EmptyMap
    ELSE LET cnum == cnums[Len(cnums)]
             key  == <<t.crate_info[cnum].name, t.crate_info[cnum].disambiguator>>
         IN  MapPut(CurrentCnums(t, SubSeq(cnums, 1, Len(cnums) - 1)), key, cnum)

MaxOf(S) == CHOOSE x \in S : \A y \in S : y <= x

\* the IndexVec after the loop over the first k entries of prev_cnums
RECURSIVE CnumMapAfter(_, _, _, _)
CnumMapAfter(current_cnums, prev_cnums, map_size, k) ==
    IF k = 0 THEN [c \in 0..(map_size - 1) |-> None]
    ELSE LET entry == prev_cnums[k]
             key   == <<entry[2], entry[3]>>
             map   == CnumMapAfter(current_cnums, prev_cnums, map_size, k - 1)
         IN  [map EXCEPT ![entry[1]] =
                 IF key \in DOMAIN current_cnums THEN Some(current_cnums[key])
                 ELSE None]

\* a compute_cnum_map that leaves the entry of the local crate as the loop
\* made it
compute_cnum_map_NoLocal(t, prev_cnums) ==
    LET current_cnums == CurrentCnums(t, t.crates)
        map_size == (IF prev_cnums = <<>> THEN 0
                     ELSE MaxOf({ prev_cnums[i][1] : i \in 1..Len(prev_cnums) }))
                    + 1
    IN  CnumMapAfter(current_cnums, prev_cnums, map_size, Len(prev_cnums))

\* OnDiskCache::compute_cnum_map
compute_cnum_map(t, prev_cnums) ==
    LET current_cnums == CurrentCnums(t, t.crates)
        map_size == (IF prev_cnums = <<>> THEN 0
                     ELSE MaxOf({ prev_cnums[i][1] : i \in 1..Len(prev_cnums) }))
                    + 1
        map == CnumMapAfter(current_cnums, prev_cnums, map_size, Len(prev_cnums))
    IN  [map EXCEPT ![LOCAL_CRATE] = Some(LOCAL_CRATE)]

(***************************************************************************)
(* OnDiskCache::serialize, in three parts: everything up to and including  *)
(* the diagnostics, one pass of the allocation loop, and the footer.       *)
(* The state e is the CacheEncoder plus the locals of serialize.           *)
(***************************************************************************)
\* "Allocate FileMapIndices": one index per file of the codemap, in order
FileIndexToStableId(t) == [i \in 1..Len(t.files) |-> <<i - 1, t.files[i]>>]

NewEncoder(t) ==
    [bytes                    |-> t.header,
     type_shorthands          |-> EmptyMap,
     predicate_shorthands     |-> EmptyMap,
     expn_info_shorthands     |-> EmptyMap,
     interpret_allocs         |-> EmptyMap,
     interpret_allocs_inverse |-> <<>>,
     file_index_to_stable_id  |-> FileIndexToStableId(t),
     query_result_index       |-> <<>>,
     diagnostics_index        |-> <<>>,
     interpret_alloc_index    |-> <<>>,
     n                        |-> 0,
     footer_pos               |-> None]

\* the body of the loop of encode_query_results for one cache entry
EncodeQueryResult(e, entry) ==
    IF ~entry.cache_on_disk THEN e
    ELSE LET dep_node == entry.index
             e1 == [e EXCEPT !.query_result_index =
                        Append(@, <<dep_node, AbsoluteBytePos(Position(e))>>)]
         IN  EncodeTaggedValue(e1, dep_node, entry.value)

\* a const_eval loop that writes the value of a failed evaluation as well
EncodeConstEval_AnyResult(e, entry) ==
    IF ~entry.cache_on_disk THEN e
    ELSE LET dep_node == entry.index
             e1 == [e EXCEPT !.query_result_index =
                        Append(@, <<dep_node, AbsoluteBytePos(Position(e))>>)]
         IN  EncodeTaggedValue(e1, dep_node, entry.value)

\* the body of the const_eval loop of serialize: only an Ok value is written
EncodeConstEval(e, entry) ==
    IF ~entry.cache_on_disk THEN e
    ELSE IF ~entry.ok THEN e
    ELSE LET dep_node == entry.index
             e1 == [e EXCEPT !.query_result_index =
                        Append(@, <<dep_node, AbsoluteBytePos(Position(e))>>)]
         IN  EncodeTaggedValue(e1, dep_node, entry.value)

RECURSIVE EncodeQueryResults(_, _)
EncodeQueryResults(e, entries) ==
    IF entries = <<>> THEN e
    ELSE Let(EncodeQueryResult(e, Head(entries)), LAMBDA e1 :
            EncodeQueryResults(e1, Tail(entries)))

RECURSIVE EncodeConstEvals(_, _)
EncodeConstEvals(e, entries) ==
    IF entries = <<>> THEN e
    ELSE Let(EncodeConstEval(e, Head(entries)), LAMBDA e1 :
            EncodeConstEvals(e1, Tail(entries)))

IsConstEval(entry) == entry.query = "const_eval"

IsPlainQuery(entry) == entry.query # "const_eval"

\* an encode pass that lists const_eval among the queries of the generic
\* loop and runs the loop of const_eval as well
EncodeAllQueryResults_ConstEvalTwice(e, t) ==
    Let(EncodeQueryResults(e, t.results), LAMBDA e1 :
        EncodeConstEvals(e1, SelectSeq(t.results, IsConstEval)))

\* "Encode query results": the caches of the listed queries, then const_eval
EncodeAllQueryResults(e, t) ==
    Let(EncodeQueryResults(e, SelectSeq(t.results, IsPlainQuery)), LAMBDA e1 :
        EncodeConstEvals(e1, SelectSeq(t.results, IsConstEval)))

\* an encoder that notes the position of a list after it has written it
RECURSIVE EncodeDiagnostics_PosAfter(_, _, _)
EncodeDiagnostics_PosAfter(e, current_diagnostics, order) ==
    IF order = <<>> THEN e
    ELSE Let(EncodeTaggedValue(e, Head(order),
                               current_diagnostics[Head(order)]), LAMBDA e1 :
            EncodeDiagnostics_PosAfter(
                [e1 EXCEPT !.diagnostics_index =
                    Append(@, <<Head(order), AbsoluteBytePos(Position(e1))>>)],
                current_diagnostics, Tail(order)))

\* "Encode diagnostics": the accumulator, in the order `order` in which the
\* hash map yields its keys
RECURSIVE EncodeDiagnostics(_, _, _)
EncodeDiagnostics(e, current_diagnostics, order) ==
    IF order = <<>> THEN e
    ELSE LET dep_node_index == Head(order)
             pos == AbsoluteBytePos(Position(e))
         IN  Let(EncodeTaggedValue(e, dep_node_index,
                                   current_diagnostics[dep_node_index]),
                 LAMBDA e1 :
                    EncodeDiagnostics(
                        [e1 EXCEPT !.diagnostics_index =
                            Append(@, <<dep_node_index, pos>>)],
                        current_diagnostics, Tail(order)))

\* serialize up to the allocation loop
SerializeHead(st, t, order) ==
    Let(EncodeAllQueryResults(NewEncoder(t), t), LAMBDA e1 :
        EncodeDiagnostics(e1, st.current_diagnostics, order))

\* for idx in n..new_n { .. }: the records of the allocations idx .. new_n-1
RECURSIVE EncodeAllocsFrom(_, _, _, _)
EncodeAllocsFrom(e, t, idx, new_n) ==
    IF idx >= new_n THEN e
    ELSE LET id  == e.interpret_allocs_inverse[idx + 1]
             pos == AbsoluteBytePos(Position(e))
             e1  == [e EXCEPT !.interpret_alloc_index = Append(@, pos)]
         IN  Let(EncodeAllocPayload(e1, t.allocs[id]), LAMBDA e2 :
                EncodeAllocsFrom(e2, t, idx + 1, new_n))

\* one iteration of the `loop` that found new ids (n # new_n)
AllocPass(e, t) ==
    LET new_n == Len(e.interpret_allocs_inverse)
    IN  [EncodeAllocsFrom(e, t, e.n, new_n) EXCEPT !.n = new_n]

\* an allocation loop that stops after its first pass
AllocLoopDone_OnePass(e) ==
    e.n > 0 \/ e.n = Len(e.interpret_allocs_inverse)

\* an allocation loop without the break
AllocLoopDone_Never(e) == e.n > Len(e.interpret_allocs_inverse)

\* the exit test of the loop
AllocLoopDone(e) == e.n = Len(e.interpret_allocs_inverse)

\* a footer whose position is taken once it has been written
WriteFooter_PosAfter(e, prev_cnums) ==
    LET e1 == EncodeTaggedFooter([e EXCEPT !.footer_pos = Some(Position(e))],
                 [file_index_to_stable_id |-> e.file_index_to_stable_id,
                  prev_cnums              |-> prev_cnums,
                  query_result_index      |-> e.query_result_index,
                  diagnostics_index       |-> e.diagnostics_index,
                  interpret_alloc_index   |-> e.interpret_alloc_index])
    IN  EncodeIntFixedSize(e1, Position(e1))

\* the tagged footer with the crate table prev_cnums, then its position
WriteFooter(e, prev_cnums) ==
    LET footer_pos == Position(e)
        e1 == EncodeTaggedFooter([e EXCEPT !.footer_pos = Some(footer_pos)],
                 [file_index_to_stable_id |-> e.file_index_to_stable_id,
                  prev_cnums              |-> prev_cnums,
                  query_result_index      |-> e.query_result_index,
                  diagnostics_index       |-> e.diagnostics_index,
                  interpret_alloc_index   |-> e.interpret_alloc_index])
    IN  EncodeIntFixedSize(e1, footer_pos)

\* from the footer on: the crate table, the tagged footer, its position
SerializeTail(e, t) == WriteFooter(e, PrevCnumsOf(t))

(***************************************************************************)
(* ACTIONS of the workers on the accumulator                               *)
(***************************************************************************)
\* a store_diagnostics that asserts in every build
store_diagnostics_Assert(dep_node_index, diagnostics) ==
    /\ phase = "active"
    /\ LET current_diagnostics == store.current_diagnostics
           prev_is_none == dep_node_index \notin DOMAIN current_diagnostics
       IN  /\ store' = [store EXCEPT !.current_diagnostics =
                           MapPut(current_diagnostics, dep_node_index, diagnostics)]
           /\ trapped' = ~prev_is_none
           /\ phase' = IF ~prev_is_none THEN "aborted" ELSE phase
    /\ UNCHANGED <<tcx, enc, th, prev, debug_assertions>>

\* a store_diagnostics that writes a map of its own in place of the shared
\* one, dropping what other calls have put there
store_diagnostics_Fresh(dep_node_index, diagnostics) ==
    /\ phase = "active"
    /\ LET current_diagnostics == store.current_diagnostics
           prev_is_none == dep_node_index \notin DOMAIN current_diagnostics
       IN  /\ store' = [store EXCEPT !.current_diagnostics =
                           MapPut(EmptyMap, dep_node_index, diagnostics)]
           /\ trapped' = (debug_assertions /\ ~prev_is_none)
           /\ phase' = IF debug_assertions /\ ~prev_is_none THEN "aborted"
                       ELSE phase
    /\ UNCHANGED <<tcx, enc, th, prev, debug_assertions>>

\* OnDiskCache::store_diagnostics: the entry is inserted, then
\* debug_assert!(prev.is_none()) panics in a build with debug assertions
store_diagnostics(dep_node_index, diagnostics) ==
    /\ phase = "active"
    /\ LET current_diagnostics == store.current_diagnostics
           prev_is_none == dep_node_index \notin DOMAIN current_diagnostics
       IN  /\ store' = [store EXCEPT !.current_diagnostics =
                           MapPut(current_diagnostics, dep_node_index, diagnostics)]
           /\ trapped' = (debug_assertions /\ ~prev_is_none)
           /\ phase' = IF debug_assertions /\ ~prev_is_none THEN "aborted"
                       ELSE phase
    /\ UNCHANGED <<tcx, enc, th, prev, debug_assertions>>

\* store_diagnostics_for_anon_node without the mem::replace: the list that
\* was just inserted is extended with itself
AnonNodeInsert_NoReplace(current_diagnostics, dep_node_index, diagnostics) ==
    LET x == IF dep_node_index \notin DOMAIN current_diagnostics THEN diagnostics
             ELSE current_diagnostics[dep_node_index]
    IN  MapPut(current_diagnostics, dep_node_index, x \o diagnostics)

\* what store_diagnostics_for_anon_node leaves in the accumulator:
\* entry(..).or_insert_with(|| mem::replace(&mut diagnostics, Vec::new()))
\* followed by x.extend(diagnostics.into_iter())
AnonNodeInsert(current_diagnostics, dep_node_index, diagnostics) ==
    LET vacant    == dep_node_index \notin DOMAIN current_diagnostics
        x         == IF vacant THEN diagnostics
                     ELSE current_diagnostics[dep_node_index]
        remaining == IF vacant THEN <<>> ELSE diagnostics
    IN  MapPut(current_diagnostics, dep_node_index, x \o remaining)

\* OnDiskCache::store_diagnostics_for_anon_node
store_diagnostics_for_anon_node(dep_node_index, diagnostics) ==
    /\ phase = "active"
    /\ LET after == AnonNodeInsert(store.current_diagnostics,
                                   dep_node_index, diagnostics)
       IN  /\ Len(after[dep_node_index]) <= MaxAccLen
           /\ store' = [store EXCEPT !.current_diagnostics = after]
    /\ UNCHANGED <<tcx, enc, th, phase, trapped, prev, debug_assertions>>

(***************************************************************************)
(* ACTIONS of a worker inside load_indexed (called by load_diagnostics     *)
(* and by try_load_query_result)                                           *)
(***************************************************************************)
NotLoaded == [pending |-> TRUE]

IdleThread ==
    [pc |-> "idle", id |-> 0, index |-> QueryResults,
     computed |-> None, result |-> NotLoaded]

\* a load_diagnostics that looks into the accumulator of this session
IndexOf_Current(st, index) ==
    IF index = QueryResults THEN st.query_result_index
    ELSE st.current_diagnostics

IndexOf(st, index) ==
    IF index = QueryResults THEN st.query_result_index
    ELSE st.prev_diagnostics_index

\* a load_indexed that goes on to decode without initialising cnum_map
LoadProbe_NoInit(t, dep_node_index, index) ==
    /\ phase = "active"
    /\ th[t].pc = "idle"
    /\ th' = [th EXCEPT ![t] =
          IF dep_node_index \notin DOMAIN IndexOf(store, index)
          THEN [pc |-> "idle", id |-> dep_node_index, index |-> index,
                computed |-> None, result |-> None]
          ELSE [pc |-> "decode", id |-> dep_node_index, index |-> index,
                computed |-> None, result |-> NotLoaded]]
    /\ UNCHANGED <<store, tcx, enc, phase, trapped, prev, debug_assertions>>

\* a load_indexed that initialises cnum_map before it looks into the index
LoadProbe_Eager(t, dep_node_index, index) ==
    /\ phase = "active"
    /\ th[t].pc = "idle"
    /\ store' = [store EXCEPT !.cnum_map =
                    IF IsSome(@) THEN @
                    ELSE Some(compute_cnum_map(tcx, store.prev_cnums))]
    /\ th' = [th EXCEPT ![t] =
          IF dep_node_index \notin DOMAIN IndexOf(store, index)
          THEN [pc |-> "idle", id |-> dep_node_index, index |-> index,
                computed |-> None, result |-> None]
          ELSE [pc |-> "decode", id |-> dep_node_index, index |-> index,
                computed |-> None, result |-> NotLoaded]]
    /\ UNCHANGED <<tcx, enc, phase, trapped, prev, debug_assertions>>

\* The index probe and the first half of Once::init_nonlocking_same: a miss
\* returns None; on a hit the cell is looked at and, when it is empty, the
\* closure (compute_cnum_map) is run without holding any lock.
LoadProbe(t, dep_node_index, index) ==
    /\ phase = "active"
    /\ th[t].pc = "idle"
    /\ th' = [th EXCEPT ![t] =
          IF dep_node_index \notin DOMAIN IndexOf(store, index)
          THEN [pc |-> "idle", id |-> dep_node_index, index |-> index,
                computed |-> None, result |-> None]
          ELSE IF IsSome(store.cnum_map)
          THEN [pc |-> "decode", id |-> dep_node_index, index |-> index,
                computed |-> None, result |-> NotLoaded]
          ELSE [pc |-> "set", id |-> dep_node_index, index |-> index,
                computed |-> Some(compute_cnum_map(tcx, store.prev_cnums)),
                result |-> NotLoaded]]
    /\ UNCHANGED <<store, tcx, enc, phase, trapped, prev, debug_assertions>>

\* The second half of Once::init_nonlocking_same (try_set_same): under the
\* lock of the cell, the computed table is stored if the cell is still
\* empty; otherwise it is compared with the stored one (assert!) and dropped.
LoadTrySet(t) ==
    /\ phase = "active"
    /\ th[t].pc = "set"
    /\ IF store.cnum_map = None
       THEN /\ store' = [store EXCEPT !.cnum_map = th[t].computed]
            /\ th' = [th EXCEPT ![t].pc = "decode", ![t].computed = None]
            /\ phase' = phase
       ELSE IF store.cnum_map = th[t].computed
       THEN /\ th' = [th EXCEPT ![t].pc = "decode", ![t].computed = None]
            /\ UNCHANGED <<store, phase>>
       ELSE /\ th' = [th EXCEPT ![t].pc = "idle", ![t].result = Abort]
            /\ phase' = "aborted"
            /\ UNCHANGED store
    /\ UNCHANGED <<tcx, enc, trapped, prev, debug_assertions>>

\* the CacheDecoder that load_indexed builds
DecoderContext(st) ==
    [data                       |-> st.serialized_data,
     cnum_map                   |-> st.cnum_map.some,
     prev_interpret_alloc_index |-> st.prev_interpret_alloc_index,
     debug_assertions           |-> debug_assertions]

\* a load_indexed that answers None when the record cannot be decoded
LoadDecode_Swallow(t) ==
    /\ phase = "active"
    /\ th[t].pc = "decode"
    /\ LET pos == IndexOf(store, th[t].index)[th[t].id]
           r   == decode_tagged(DecoderContext(store),
                                [pos |-> pos,
                                 interpret_alloc_cache |-> store.interpret_alloc_cache,
                                 interner |-> tcx.allocs],
                                th[t].id)
       IN  IF r.ok
           THEN /\ th' = [th EXCEPT ![t].pc = "idle", ![t].result = Some(r.val)]
                /\ store' = [store EXCEPT !.interpret_alloc_cache =
                                              r.d.interpret_alloc_cache]
                /\ tcx' = [tcx EXCEPT !.allocs = r.d.interner]
           ELSE /\ th' = [th EXCEPT ![t].pc = "idle", ![t].result = None]
                /\ UNCHANGED <<store, tcx>>
    /\ UNCHANGED <<enc, phase, trapped, prev, debug_assertions>>

\* The rest of load_indexed: the decoder is built on cnum_map.get() and the
\* record at the indexed position is decoded; an Err is a bug!().
LoadDecode(t) ==
    /\ phase = "active"
    /\ th[t].pc = "decode"
    /\ LET pos == IndexOf(store, th[t].index)[th[t].id]
           r   == decode_tagged(DecoderContext(store),
                                [pos |-> pos,
                                 interpret_alloc_cache |-> store.interpret_alloc_cache,
                                 interner |-> tcx.allocs],
                                th[t].id)
       IN  IF r.ok
           THEN /\ th' = [th EXCEPT ![t].pc = "idle", ![t].result = Some(r.val)]
                /\ store' = [store EXCEPT !.interpret_alloc_cache =
                                              r.d.interpret_alloc_cache]
                /\ tcx' = [tcx EXCEPT !.allocs = r.d.interner]
                /\ phase' = phase
           ELSE /\ th' = [th EXCEPT ![t].pc = "idle", ![t].result = Abort]
                /\ phase' = "aborted"
                /\ UNCHANGED <<store, tcx>>
    /\ UNCHANGED <<enc, trapped, prev, debug_assertions>>

(***************************************************************************)
(* ACTIONS of shutdown and of the next process                             *)
(***************************************************************************)
NoEnc == [none |-> TRUE]

NoPrev == [none |-> TRUE]

AllIdle == \A t \in Threads : th[t].pc = "idle"

\* the orders in which a hash map with the keys S can yield them
RECURSIVE Orders(_)
Orders(S) ==
    IF S = {} THEN { <<>> }
    ELSE UNION { { <<x>> \o o : o \in Orders(S \ {x}) } : x \in S }

\* a serialize that takes the diagnostics out of the accumulator
SerializeBegin_Drain ==
    /\ phase = "active"
    /\ AllIdle
    /\ \E order \in Orders(DOMAIN store.current_diagnostics) :
          enc' = SerializeHead(store, tcx, order)
    /\ store' = [store EXCEPT !.current_diagnostics = EmptyMap]
    /\ phase' = "serializing"
    /\ UNCHANGED <<tcx, th, trapped, prev, debug_assertions>>

\* serialize, from its start to the end of "Encode diagnostics"
SerializeBegin ==
    /\ phase = "active"
    /\ AllIdle
    /\ \E order \in Orders(DOMAIN store.current_diagnostics) :
          enc' = SerializeHead(store, tcx, order)
    /\ phase' = "serializing"
    /\ UNCHANGED <<store, tcx, th, trapped, prev, debug_assertions>>

\* serialize, one iteration of the allocation loop that does not break
SerializeAllocPass ==
    /\ phase = "serializing"
    /\ ~AllocLoopDone(enc)
    /\ enc' = AllocPass(enc, tcx)
    /\ UNCHANGED <<store, tcx, th, phase, trapped, prev, debug_assertions>>

\* a serialize after which the process goes on as before
SerializeFinish_Resume ==
    /\ phase = "serializing"
    /\ AllocLoopDone(enc)
    /\ enc' = SerializeTail(enc, tcx)
    /\ phase' = "active"
    /\ UNCHANGED <<store, tcx, th, trapped, prev, debug_assertions>>

\* serialize, from the break of the allocation loop to its return
SerializeFinish ==
    /\ phase = "serializing"
    /\ AllocLoopDone(enc)
    /\ enc' = SerializeTail(enc, tcx)
    /\ phase' = "serialized"
    /\ UNCHANGED <<store, tcx, th, trapped, prev, debug_assertions>>

\* the whole of serialize: the allocation loop runs until it breaks
RECURSIVE AllocLoop(_, _)
AllocLoop(e, t) ==
    IF AllocLoopDone(e) THEN e
    ELSE Let(AllocPass(e, t), LAMBDA e1 : AllocLoop(e1, t))

Serialize(st, t, order) ==
    Let(SerializeHead(st, t, order), LAMBDA e1 :
    Let(AllocLoop(e1, t), LAMBDA e2 : SerializeTail(e2, t)))

(***************************************************************************)
(* SESSIONS.  What the collaborators supply to one process.                *)
(***************************************************************************)
NameMain == <<109, 97, 105, 110>>

NameCore == <<99, 111, 114, 101>>

NameAlloc == <<97, 108, 108, 111, 99>>

\* a crate of a session: its original name and its disambiguator
Crate(name, disambiguator) == [name |-> name, disambiguator |-> disambiguator]

LocalCrate == Crate(NameMain, 10)

CoreCrate == Crate(NameCore, 11)

AllocCrate == Crate(NameAlloc, 12)

\* the core crate of another build: same name, other disambiguator
CoreCrateRebuilt == Crate(NameCore, 13)

\* the header the driver writes to the file before it calls serialize
FileHeader == <<82, 83, 73, 67>>

\* A session with the external crates `crates` (the list tcx.crates()
\* reports), their names `info`, the query cache entries `results` in the
\* order the caches yield them, and the allocations `allocs`.
Session(crates, info, results, allocs) ==
    [crates     |-> crates,
     crate_info |-> info,
     results    |-> results,
     allocs     |-> allocs,
     files      |-> <<>>,
     header     |-> FileHeader]

Entry(index, value) ==
    [index |-> index, value |-> value, cache_on_disk |-> TRUE,
     query |-> "plain", ok |-> TRUE]

Allocation(data, refs) == [data |-> data, refs |-> refs]

\* core is crate 1 and alloc is crate 2
CratesCoreAlloc == (0 :> LocalCrate) @@ (1 :> CoreCrate) @@ (2 :> AllocCrate)

\* the allocations 0 -> 1 -> {2, 0} and 2 -> 2: a chain, a cycle and a
\* self reference
AllocCyclic ==
    (0 :> Allocation(7, <<1>>)) @@ (1 :> Allocation(8, <<2, 0>>))
        @@ (2 :> Allocation(300, <<2>>))

Ineligible(entry) == [entry EXCEPT !.cache_on_disk = FALSE]

ConstEval(entry, ok) == [entry EXCEPT !.query = "const_eval", !.ok = ok]

\* the values cached under identity 0 in the sessions of the model
ValuePool ==
    { <<IntItem(5)>>,
      <<IntItem(300), CnumItem(1)>>,
      <<AllocItem(0), CnumItem(2)>>,
      <<AllocItem(1), AllocItem(0)>> }

\* what the query caches may hold for identity 0: nothing, a result of a
\* query that is cached on disk, one that is not, a constant evaluation
\* that succeeded or failed
EntryChoices0 ==
    { <<>> } \cup { <<Entry(0, v)>> : v \in ValuePool }
        \cup { <<Ineligible(Entry(0, <<IntItem(5)>>))>>,
               <<ConstEval(Entry(0, <<AllocItem(2)>>), TRUE)>>,
               <<ConstEval(Entry(0, <<IntItem(5)>>), FALSE)>> }

\* and for identity 1
EntryChoices1 == { <<>>, <<Entry(1, <<CnumItem(1), AllocItem(1)>>)>> }

\* the query caches of a writing session, in either iteration order
ResultsPool ==
    UNION { { a \o b, b \o a } : <<a, b>> \in EntryChoices0 \X EntryChoices1 }

\* the accumulators of a writing session at the time it serializes
AccumulatorPool ==
    { EmptyMap,
      (0 :> <<IntItem(1), IntItem(2)>>),
      (0 :> <<IntItem(2)>>) @@ (1 :> <<>>) }

WriterPool ==
    { Session(<<1, 2>>, CratesCoreAlloc, results, AllocCyclic) :
        results \in ResultsPool }

\* The sessions that read: the crate graph is unchanged; or core is now
\* crate 7 and alloc is gone; or the two crates have swapped numbers and
\* core was rebuilt.  The reading session starts with no query result and
\* no allocation of its own.
ReaderPool ==
    { Session(<<1, 2>>, CratesCoreAlloc, <<>>, EmptyMap),
      Session(<<7>>, (0 :> LocalCrate) @@ (7 :> CoreCrate), <<>>, EmptyMap),
      Session(<<2, 1>>,
              (0 :> LocalCrate) @@ (1 :> AllocCrate) @@ (2 :> CoreCrateRebuilt),
              <<>>, EmptyMap) }

(***************************************************************************)
(* SPECIFICATIONS                                                          *)
(***************************************************************************)
\* what every process starts with
InitProcess ==
    /\ enc = NoEnc
    /\ th = [t \in Threads |-> IdleThread]
    /\ phase = "active"
    /\ trapped = FALSE
    /\ debug_assertions \in BOOLEAN

\* A process that opened, with OnDiskCache::new, the bytes a session of
\* WriterPool serialized.
InitLoad ==
    /\ InitProcess
    /\ \E w \in WriterPool, acc \in AccumulatorPool :
         \E order \in Orders(DOMAIN acc) :
            LET st == [new_empty EXCEPT !.current_diagnostics = acc]
                e  == Serialize(st, w, order)
            IN  /\ store = new(e.bytes)
                /\ prev = [tcx |-> w, current_diagnostics |-> acc, enc |-> e]
    /\ tcx \in ReaderPool

Indices == {QueryResults, Diagnostics}

\* the worker of a process that runs one worker
FirstThread == CHOOSE t \in Threads : \A u \in Threads : t <= u

LoadStep(t) ==
    \/ \E i \in Ids, index \in Indices : LoadProbe(t, i, index)
    \/ LoadTrySet(t)
    \/ LoadDecode(t)

NextLoad == LoadStep(FirstThread)

\* a process that reads a cache with one worker
SpecLoad == InitLoad /\ [][NextLoad]_vars


\* the diagnostics a and b
DiagA == IntItem(1)

DiagB == IntItem(2)

\* the lists a store call may pass
DiagArgs == UNION { [1..k -> {DiagA, DiagB}] : k \in 0..MaxDiagLen }

\* a session that has computed nothing yet
FreshSession == Session(<<1, 2>>, CratesCoreAlloc, <<>>, EmptyMap)

\* A process that starts without a cache file.
InitStore ==
    /\ InitProcess
    /\ store = new_empty
    /\ prev = NoPrev
    /\ tcx = FreshSession

NextStore ==
    \E i \in Ids, diagnostics \in DiagArgs :
        \/ store_diagnostics(i, diagnostics)
        \/ store_diagnostics_for_anon_node(i, diagnostics)

\* a process whose workers store diagnostics
SpecStore == InitStore /\ [][NextStore]_vars

\* A process without a cache file whose worker stores diagnostics and looks
\* results and diagnostics up.  Of load_indexed only the probe of the index
\* is a step here: a worker gets past it on a hit alone.
NextEmpty ==
    \/ \E i \in Ids :
          \/ store_diagnostics(i, <<DiagA>>)
          \/ store_diagnostics_for_anon_node(i, <<DiagB>>)
    \/ \E i \in Ids, index \in Indices : LoadProbe(FirstThread, i, index)

\* a process that started with OnDiskCache::new_empty
SpecEmpty == InitStore /\ [][NextEmpty]_vars

\* the crates that the sessions of the model may depend on
CrateIdentities == {CoreCrate, AllocCrate, CoreCrateRebuilt}

CrateNums == 1..NumCrates

RECURSIVE Ascending(_)
Ascending(S) ==
    IF S = {} THEN <<>>
    ELSE LET least == CHOOSE x \in S : \A y \in S : x <= y
         IN  <<least>> \o Ascending(S \ {least})

\* the crate graphs of a session: some of the crate numbers, each naming a
\* crate of its own
CrateGraphs ==
    { g \in UNION { [D -> CrateIdentities] : D \in SUBSET CrateNums } :
        \A c1, c2 \in DOMAIN g : g[c1] = g[c2] => c1 = c2 }

GraphSession(g) ==
    Session(Ascending(DOMAIN g), (LOCAL_CRATE :> LocalCrate) @@ g, <<>>, EmptyMap)

\* the session in which core is crate 7 and alloc is gone
CoreIsSeven ==
    Session(<<7>>, (LOCAL_CRATE :> LocalCrate) @@ (7 :> CoreCrate), <<>>, EmptyMap)

CnumSessions == { GraphSession(g) : g \in CrateGraphs } \cup {CoreIsSeven}

\* The crate tables a cache file may hold: any crate numbers in ascending
\* order, with or without the entry of the local crate.
TableOf(g) ==
    [k \in 1..Cardinality(DOMAIN g) |->
        <<Ascending(DOMAIN g)[k],
          g[Ascending(DOMAIN g)[k]].name,
          g[Ascending(DOMAIN g)[k]].disambiguator>>]

PrevTables ==
    UNION { { TableOf(g), TableOf((LOCAL_CRATE :> LocalCrate) @@ g) } :
              g \in UNION { [D -> CrateIdentities] : D \in SUBSET CrateNums } }

\* a cache file with one query result and the crate table prev_cnums
FileWithTable(prev_cnums) ==
    WriteFooter(EncodeQueryResult(NewEncoder(FreshSession),
                                  Entry(0, <<IntItem(5), CnumItem(1)>>)),
                prev_cnums)

\* A process that opened a cache file with some crate table, in a session
\* with some crate graph.
InitCnum ==
    /\ InitProcess
    /\ \E prev_cnums \in PrevTables :
          LET e == FileWithTable(prev_cnums)
          IN  /\ store = new(e.bytes)
              /\ prev = [tcx |-> FreshSession, current_diagnostics |-> EmptyMap,
                         enc |-> e]
    /\ tcx \in CnumSessions

\* the process loads with one worker
SpecCnum == InitCnum /\ [][NextLoad]_vars

\* the session whose bytes the racing workers read
RaceWriter ==
    Session(<<1, 2>>, CratesCoreAlloc,
            <<Entry(0, <<IntItem(300), CnumItem(1)>>),
              Entry(1, <<CnumItem(1), AllocItem(1)>>)>>,
            AllocCyclic)

\* A process that opened the bytes of RaceWriter.
InitRace ==
    /\ InitProcess
    /\ LET acc == (0 :> <<DiagA>>)
           e   == Serialize([new_empty EXCEPT !.current_diagnostics = acc],
                            RaceWriter, <<0>>)
       IN  /\ store = new(e.bytes)
           /\ prev = [tcx |-> RaceWriter, current_diagnostics |-> acc, enc |-> e]
    /\ tcx \in ReaderPool

NextRace == \E t \in Threads : LoadStep(t)

\* a process whose workers load concurrently
SpecRace == InitRace /\ [][NextRace]_vars

AllocIds == 0..(NumAllocs - 1)

\* what an allocation may point to: nothing, one allocation (itself
\* included), or two with the larger id first
RefChoices ==
    { <<>> } \cup { <<x>> : x \in AllocIds }
        \cup { <<x, y>> : <<x, y>> \in { p \in AllocIds \X AllocIds : p[1] > p[2] } }

\* the allocations of a session with the references g
AllocsOf(g) == [a \in AllocIds |-> Allocation(a * 150 + 7, g[a])]

\* the values a writing session caches under identity 0
SerializeRoots ==
    { <<IntItem(5)>>, <<AllocItem(0)>>, <<AllocItem(1), AllocItem(0)>> }

SerializeSessions ==
    { Session(<<1, 2>>, CratesCoreAlloc, <<Entry(0, v)>>, AllocsOf(g)) :
        v \in SerializeRoots, g \in [AllocIds -> RefChoices] }

\* A process at the time it is about to serialize.
InitSerialize ==
    /\ InitProcess
    /\ store = [new_empty EXCEPT !.current_diagnostics = (0 :> <<DiagA, DiagB>>)]
    /\ prev = NoPrev
    /\ tcx \in SerializeSessions

NextSerialize ==
    \/ SerializeBegin
    \/ SerializeAllocPass
    \/ SerializeFinish

\* a process that serializes its cache
SpecSerialize == InitSerialize /\ [][NextSerialize]_vars

\* longest list of crates that tcx.crates() reports in the sessions of
\* CrateListSessions
MaxCrateList == 3

\* The sessions that report any list of crate numbers, the local crate and
\* repeated numbers included; every crate number has a name.
CrateListSessions ==
    { Session(crates,
              [c \in 0..NumCrates |->
                  CASE c = LOCAL_CRATE -> LocalCrate
                    [] c = 1           -> CoreCrate
                    [] OTHER           -> AllocCrate],
              <<Entry(0, <<AllocItem(0)>>)>>,
              AllocsOf([a \in AllocIds |-> <<>>])) :
        crates \in UNION { [1..k -> 0..NumCrates] : k \in 0..MaxCrateList } }

\* A process at the time it is about to serialize.
InitCrates ==
    /\ InitProcess
    /\ store = new_empty
    /\ prev = NoPrev
    /\ tcx \in CrateListSessions

\* a process that serializes its cache, whatever crates its session reports
SpecCrates == InitCrates /\ [][NextSerialize]_vars

\* the session of a process that reads the bytes of RaceWriter and has by
\* now computed one result of its own
LifeSession ==
    Session(<<1, 2>>, CratesCoreAlloc, <<Entry(1, <<AllocItem(0)>>)>>,
            AllocCyclic)

\* A process that opened the bytes of RaceWriter.
InitLife ==
    /\ InitProcess
    /\ LET acc == (0 :> <<DiagA>>)
           e   == Serialize([new_empty EXCEPT !.current_diagnostics = acc],
                            RaceWriter, <<0>>)
       IN  /\ store = new(e.bytes)
           /\ prev = [tcx |-> RaceWriter, current_diagnostics |-> acc, enc |-> e]
    /\ tcx = LifeSession

\* The life of one process: its worker loads and stores the diagnostics of
\* node 0 until the driver calls serialize at shutdown.
NextLife ==
    \/ LoadStep(FirstThread)
    \/ store_diagnostics(0, <<DiagA>>)
    \/ store_diagnostics_for_anon_node(0, <<DiagB>>)
    \/ SerializeBegin
    \/ SerializeAllocPass
    \/ SerializeFinish

\* a process from the opening of its cache to the end of serialize
SpecLife == InitLife /\ [][NextLife]_vars

\* the reference graphs of the sessions whose allocation loop is followed
\* to its end: no reference, a chain, a ring, self references, a ring with
\* self references, and every allocation pointing to the first one
FlushGraphs ==
    { [a \in AllocIds |-> <<>>],
      [a \in AllocIds |-> IF a + 1 < NumAllocs THEN <<a + 1>> ELSE <<>>],
      [a \in AllocIds |-> <<(a + 1) % NumAllocs>>],
      [a \in AllocIds |-> <<a>>],
      [a \in AllocIds |-> <<(a + 1) % NumAllocs, a>>],
      [a \in AllocIds |-> <<0>>] }

\* the values cached in them: those of SerializeSessions, and one whose
\* first item takes two bytes
FlushRoots == SerializeRoots \cup { <<IntItem(300), AllocItem(1)>> }

FlushSessions ==
    { Session(<<1, 2>>, CratesCoreAlloc, <<Entry(0, v)>>, AllocsOf(g)) :
        v \in FlushRoots, g \in FlushGraphs }

\* A process at the time it is about to serialize.
InitFlush ==
    /\ InitProcess
    /\ store = [new_empty EXCEPT !.current_diagnostics = (0 :> <<DiagA, DiagB>>)]
    /\ prev = NoPrev
    /\ tcx \in FlushSessions

\* serialize is a sequential function that is called once: each of its
\* steps is taken as soon as the one before is done
FairSerialize ==
    InitFlush /\ [][NextSerialize]_vars /\ WF_vars(NextSerialize)

\* the bytes with the byte at position pos (counted from 0) replaced
Corrupt(bytes, pos, byte) == [bytes EXCEPT ![pos + 1] = byte]

\* what a damaged byte may read: its value plus one, or with the top bit
\* (the continuation bit of a LEB128 number) flipped
FlipChoices(byte) == { (byte + 1) % 256, (byte + 128) % 256 }

\* A process that opened the bytes of RaceWriter after one byte of a
\* record, anywhere between the header and the footer, was damaged.
InitCorrupt ==
    /\ enc = NoEnc
    /\ th = [t \in Threads |-> IdleThread]
    /\ trapped = FALSE
    /\ debug_assertions \in BOOLEAN
    /\ tcx = FreshSession
    /\ LET acc == (0 :> <<DiagA, DiagB>>)
           e   == Serialize([new_empty EXCEPT !.current_diagnostics = acc],
                            RaceWriter, <<0>>)
       IN  /\ prev = [tcx |-> RaceWriter, current_diagnostics |-> acc, enc |-> e]
           /\ \E pos \in Len(RaceWriter.header)..(e.footer_pos.some - 1) :
                 \E byte \in FlipChoices(e.bytes[pos + 1]) :
                    \E opened \in { new(Corrupt(e.bytes, pos, byte)) } :
                       /\ store = (IF IsAbort(opened) THEN new_empty ELSE opened)
                       /\ phase = (IF IsAbort(opened) THEN "aborted" ELSE "active")

\* a process that reads a damaged cache with one worker
SpecCorrupt == InitCorrupt /\ [][NextLoad]_vars

\* the bytes RaceWriter leaves on disk
WrittenFile ==
    Serialize([new_empty EXCEPT !.current_diagnostics = (0 :> <<DiagA, DiagB>>)],
              RaceWriter, <<0>>)

\* What the next process may find on disk: the file as written, the file
\* cut short at any length, or the file with one damaged byte in the footer
\* record or in the 8 bytes that point to it.
FilesOnDisk ==
    LET e == WrittenFile
    IN  { e.bytes }
          \cup { SubSeq(e.bytes, 1, n) : n \in 0..(Len(e.bytes) - 1) }
          \cup UNION { { Corrupt(e.bytes, pos, byte) :
                            byte \in FlipChoices(e.bytes[pos + 1]) } :
                       pos \in e.footer_pos.some..(Len(e.bytes) - 1) }

\* A process that has read the cache file into memory and has not yet
\* called OnDiskCache::new.
InitOpen ==
    /\ enc = NoEnc
    /\ th = [t \in Threads |-> IdleThread]
    /\ trapped = FALSE
    /\ debug_assertions \in BOOLEAN
    /\ tcx = FreshSession
    /\ store = new_empty
    /\ phase = "starting"
    /\ \E data \in FilesOnDisk :
          prev = [tcx |-> RaceWriter,
                  current_diagnostics |-> (0 :> <<DiagA, DiagB>>),
                  enc |-> WrittenFile, file |-> data]

\* OnDiskCache::new(sess, data, start_pos): the process gets its store, or
\* panics in one of the two expect()s
OpenFile ==
    /\ phase = "starting"
    /\ \E opened \in { new(prev.file) } :
          IF IsAbort(opened)
          THEN /\ phase' = "aborted"
               /\ UNCHANGED store
          ELSE /\ phase' = "active"
               /\ store' = opened
    /\ UNCHANGED <<tcx, enc, th, trapped, prev, debug_assertions>>

NextOpen == OpenFile

\* a process that opens whatever it finds on disk
SpecOpen == InitOpen /\ [][NextOpen]_vars

\* A process that has not yet made its store: it will open the file that
\* RaceWriter wrote, or start without a file.
InitLazy ==
    /\ enc = NoEnc
    /\ th = [t \in Threads |-> IdleThread]
    /\ trapped = FALSE
    /\ debug_assertions \in BOOLEAN
    /\ tcx \in ReaderPool
    /\ store = new_empty
    /\ phase = "starting"
    /\ prev = [tcx |-> RaceWriter,
               current_diagnostics |-> (0 :> <<DiagA, DiagB>>),
               enc |-> WrittenFile, file |-> WrittenFile.bytes]

\* OnDiskCache::new_empty(codemap)
OpenEmpty ==
    /\ phase = "starting"
    /\ store' = new_empty
    /\ phase' = "active"
    /\ UNCHANGED <<tcx, enc, th, trapped, prev, debug_assertions>>

NextLazy ==
    \/ OpenFile
    \/ OpenEmpty
    \/ \E t \in Threads : LoadStep(t)

\* a process that makes its store with new or new_empty and whose workers
\* then look results and diagnostics up
SpecLazy == InitLazy /\ [][NextLazy]_vars

(***************************************************************************)
(* SPANS.  A span is a byte range of the session's codemap together with a *)
(* syntax context.  The codemap is a list of files; a syntax context is an *)
(* index into the session's hygiene data (0 is the empty context), which   *)
(* gives its outer mark, and a mark may carry expansion info: the call     *)
(* site, itself a span, and the callee.                                    *)
(***************************************************************************)
TAG_NO_EXPANSION_INFO == 0

TAG_EXPANSION_INFO_SHORTHAND == 1

TAG_EXPANSION_INFO_INLINE == 2

TAG_VALID_SPAN == 0

TAG_INVALID_SPAN == 1

\* Span::new
Span(lo, hi, ctxt) == [lo |-> lo, hi |-> hi, ctxt |-> ctxt]

\* SyntaxContext::empty()
EmptyContext == 0

DUMMY_SP == Span(0, 0, EmptyContext)

\* a file of the codemap: the absolute positions it covers and those at
\* which its lines start
FileMap(stable_id, start_pos, end_pos, lines) ==
    [stable_id |-> stable_id, start_pos |-> start_pos, end_pos |-> end_pos,
     lines |-> lines]

ExpnInfo(call_site, callee) == [call_site |-> call_site, callee |-> callee]

\* the hygiene data of a session that expanded nothing: the root mark and
\* the empty context
NoHygiene ==
    [marks           |-> <<[expn_info |-> None]>>,
     syntax_contexts |-> <<[outer_mark |-> 0]>>]

\* SyntaxContext::outer
outer(hygiene, ctxt) == hygiene.syntax_contexts[ctxt + 1].outer_mark

\* Mark::expn_info
expn_info_of(hygiene, mark) == hygiene.marks[mark + 1].expn_info

\* SyntaxContext::allocate_directly: a new mark carrying the info and a new
\* context whose outer mark it is
allocate_directly(hygiene, expn_info) ==
    LET marks == Append(hygiene.marks, [expn_info |-> Some(expn_info)])
        ctxts == Append(hygiene.syntax_contexts,
                        [outer_mark |-> Len(marks) - 1])
    IN  [hygiene |-> [marks |-> marks, syntax_contexts |-> ctxts],
         ctxt    |-> Len(ctxts) - 1]

\* FileMap::contains
contains(file, byte_pos) ==
    byte_pos >= file.start_pos /\ byte_pos <= file.end_pos

\* CachingCodemapView::byte_pos_to_line_and_col: the file (its place in the
\* codemap), the 1-based line and the column of a position, if a file with
\* a line at or before the position covers it
byte_pos_to_line_and_col(codemap, pos) ==
    LET files == { i \in 1..Len(codemap) :
                     /\ pos >= codemap[i].start_pos
                     /\ pos < codemap[i].end_pos
                     /\ \E l \in 1..Len(codemap[i].lines) :
                           codemap[i].lines[l] <= pos }
    IN  IF files = {} THEN None
        ELSE LET file  == CHOOSE i \in files : TRUE
                 lines == codemap[file].lines
                 line  == CHOOSE l \in 1..Len(lines) :
                            /\ lines[l] <= pos
                            /\ \A k \in 1..Len(lines) :
                                  lines[k] <= pos => k <= l
             IN  Some([file |-> file, line |-> line, col |-> pos - lines[line]])

\* the "Allocate FileMapIndices" loop of serialize: the index of each file,
\* keyed by the file (its place in the codemap stands for its address)
file_to_file_index(t) == [file \in 1..Len(t.codemap) |-> file - 1]

\* CacheEncoder::filemap_index
filemap_index(t, file) == file_to_file_index(t)[file]

RECURSIVE EncodeSpan(_, _, _)

\* ExpnInfo::encode (derived): the call site, then the callee
EncodeExpnInfo(e, t, expn_info) ==
    Let(EncodeSpan(e, t, expn_info.call_site), LAMBDA e1 :
        emit_usize(e1, expn_info.callee))

\* a Span encoder whose shorthand table is looked up by the info of the
\* mark: a mark whose info equals that of a mark written earlier is written
\* as a reference to the earlier one
EncodeCtxt_ByInfo(e, t, ctxt) ==
    LET mark      == outer(t.hygiene, ctxt)
        expn_info == expn_info_of(t.hygiene, mark)
        same      == { m \in DOMAIN e.expn_info_shorthands :
                          expn_info_of(t.hygiene, m) = expn_info }
    IN  CASE ctxt = EmptyContext -> emit_u8(e, TAG_NO_EXPANSION_INFO)
          [] ctxt # EmptyContext /\ ~IsSome(expn_info) ->
                emit_u8(e, TAG_NO_EXPANSION_INFO)
          [] ctxt # EmptyContext /\ IsSome(expn_info) /\ same # {} ->
                emit_u32(emit_u8(e, TAG_EXPANSION_INFO_SHORTHAND),
                         e.expn_info_shorthands[CHOOSE m \in same : TRUE])
          [] OTHER ->
                Let(emit_u8(e, TAG_EXPANSION_INFO_INLINE), LAMBDA e1 :
                    EncodeExpnInfo(
                        [e1 EXCEPT !.expn_info_shorthands =
                             MapPut(@, mark, AbsoluteBytePos(Position(e1)))],
                        t, expn_info.some))

\* the second half of the Span encoder: the expansion info of the context,
\* inline at its first occurrence and as the position of that occurrence
\* afterwards
EncodeCtxt(e, t, ctxt) ==
    LET mark      == outer(t.hygiene, ctxt)
        expn_info == expn_info_of(t.hygiene, mark)
    IN  CASE ctxt = EmptyContext -> emit_u8(e, TAG_NO_EXPANSION_INFO)
          [] ctxt # EmptyContext /\ ~IsSome(expn_info) ->
                emit_u8(e, TAG_NO_EXPANSION_INFO)
          [] ctxt # EmptyContext /\ IsSome(expn_info)
                /\ mark \in DOMAIN e.expn_info_shorthands ->
                emit_u32(emit_u8(e, TAG_EXPANSION_INFO_SHORTHAND),
                         e.expn_info_shorthands[mark])
          [] OTHER ->
                Let(emit_u8(e, TAG_EXPANSION_INFO_INLINE), LAMBDA e1 :
                    EncodeExpnInfo(
                        [e1 EXCEPT !.expn_info_shorthands =
                             MapPut(@, mark, AbsoluteBytePos(Position(e1)))],
                        t, expn_info.some))

\* a Span encoder that treats the dummy span like any other span
EncodeSpan_NoDummy(e, t, span) ==
    LET pos == byte_pos_to_line_and_col(t.codemap, span.lo)
    IN  CASE span.hi < span.lo -> emit_u8(e, TAG_INVALID_SPAN)
          [] span.hi >= span.lo /\ ~IsSome(pos) -> emit_u8(e, TAG_INVALID_SPAN)
          [] span.hi >= span.lo /\ IsSome(pos)
                /\ ~contains(t.codemap[pos.some.file], span.hi) ->
                emit_u8(e, TAG_INVALID_SPAN)
          [] OTHER ->
                Let(emit_u32(emit_u32(emit_usize(emit_u32(
                        emit_u8(e, TAG_VALID_SPAN),
                        filemap_index(t, pos.some.file)),
                        pos.some.line), pos.some.col), span.hi - span.lo),
                    LAMBDA e1 : EncodeCtxt(e1, t, span.ctxt))

\* SpecializedEncoder<Span>::specialized_encode
EncodeSpan(e, t, span) ==
    LET pos == byte_pos_to_line_and_col(t.codemap, span.lo)
    IN  CASE span = DUMMY_SP -> emit_u8(e, TAG_INVALID_SPAN)
          [] span # DUMMY_SP /\ span.hi < span.lo -> emit_u8(e, TAG_INVALID_SPAN)
          [] span # DUMMY_SP /\ span.hi >= span.lo /\ ~IsSome(pos) ->
                emit_u8(e, TAG_INVALID_SPAN)
          [] span # DUMMY_SP /\ span.hi >= span.lo /\ IsSome(pos)
                /\ ~contains(t.codemap[pos.some.file], span.hi) ->
                emit_u8(e, TAG_INVALID_SPAN)
          [] OTHER ->
                Let(emit_u32(emit_u32(emit_usize(emit_u32(
                        emit_u8(e, TAG_VALID_SPAN),
                        filemap_index(t, pos.some.file)),
                        pos.some.line), pos.some.col), span.hi - span.lo),
                    LAMBDA e1 : EncodeCtxt(e1, t, span.ctxt))

(***************************************************************************)
(* Decoding spans.  The decoder state d of a span decoder is the read      *)
(* cursor, the file cache and the expansion-context cache of the store and *)
(* the hygiene data of the session; cx holds the serialized data, the      *)
(* file_index_to_stable_id table of the footer and the session's codemap.  *)
(***************************************************************************)
\* u8::decode on the opaque decoder: data[position], a panic past the end
DecodeU8(cx, d) ==
    IF d.pos < Len(cx.data)
    THEN Ok(cx.data[d.pos + 1], [d EXCEPT !.pos = @ + 1])
    ELSE Fail(d)

\* CodeMap::filemap_by_stable_id
filemap_by_stable_id(codemap, stable_id) ==
    LET files == { i \in 1..Len(codemap) : codemap[i].stable_id = stable_id }
    IN  IF files = {} THEN None ELSE Some(CHOOSE i \in files : TRUE)

\* CacheDecoder::file_index_to_file: entry(index).or_insert_with(..) under
\* the lock of the cache; the indexing and the expect() panic
file_index_to_file(cx, d, index) ==
    CASE index \in DOMAIN d.file_index_to_file ->
            Ok(d.file_index_to_file[index], d)
      [] index \notin DOMAIN d.file_index_to_file
            /\ index \notin DOMAIN cx.file_index_to_stable_id -> Fail(d)
      [] OTHER ->
            LET file == filemap_by_stable_id(cx.codemap,
                                             cx.file_index_to_stable_id[index])
            IN  IF IsSome(file)
                THEN Ok(file.some, [d EXCEPT !.file_index_to_file =
                                                 MapPut(@, index, file.some)])
                ELSE Fail(d)

\* a Span decoder that takes the start of the line for lo
DecodeSpanData_NoColumn(cx, d) ==
    LET file_lo_index == DecodeInt(cx, d)
        line_lo       == DecodeInt(cx, file_lo_index.d)
        col_lo        == DecodeInt(cx, line_lo.d)
        len           == DecodeInt(cx, col_lo.d)
    IN  IF ~(file_lo_index.ok /\ line_lo.ok /\ col_lo.ok /\ len.ok)
        THEN Fail(d)
        ELSE Then(file_index_to_file(cx, len.d, file_lo_index.val),
                  LAMBDA file_lo :
             LET lines == cx.codemap[file_lo.val].lines
                 lo    == lines[line_lo.val]
                 tag   == DecodeU8(cx, file_lo.d)
             IN  CASE line_lo.val \notin 1..Len(lines) -> Fail(file_lo.d)
                   [] line_lo.val \in 1..Len(lines) /\ ~tag.ok -> tag
                   [] OTHER -> Ok([lo |-> lo, hi |-> lo + len.val,
                                   expn_info_tag |-> tag.val], tag.d))

\* Span decoder, after the tag: the four numbers, the file, lo and hi, and
\* the tag of the expansion info
DecodeSpanData(cx, d) ==
    LET file_lo_index == DecodeInt(cx, d)
        line_lo       == DecodeInt(cx, file_lo_index.d)
        col_lo        == DecodeInt(cx, line_lo.d)
        len           == DecodeInt(cx, col_lo.d)
    IN  IF ~(file_lo_index.ok /\ line_lo.ok /\ col_lo.ok /\ len.ok)
        THEN Fail(d)
        ELSE Then(file_index_to_file(cx, len.d, file_lo_index.val),
                  LAMBDA file_lo :
             LET lines == cx.codemap[file_lo.val].lines
                 lo    == lines[line_lo.val] + col_lo.val
                 tag   == DecodeU8(cx, file_lo.d)
             IN  CASE line_lo.val \notin 1..Len(lines) -> Fail(file_lo.d)
                   [] line_lo.val \in 1..Len(lines) /\ ~tag.ok -> tag
                   [] OTHER -> Ok([lo |-> lo, hi |-> lo + len.val,
                                   expn_info_tag |-> tag.val], tag.d))

RECURSIVE DecodeSpan(_, _)

\* ExpnInfo::decode (derived)
DecodeExpnInfo(cx, d) ==
    Then(DecodeSpan(cx, d), LAMBDA call_site :
        LET callee == DecodeInt(cx, call_site.d)
        IN  IF callee.ok
            THEN Ok(ExpnInfo(call_site.val, callee.val), callee.d)
            ELSE callee)

\* allocate_directly and the insert into synthetic_expansion_infos
InsertContext(d, pos, expn_info) ==
    LET fresh == allocate_directly(d.hygiene, expn_info)
    IN  Ok(fresh.ctxt,
           [d EXCEPT !.hygiene = fresh.hygiene,
                     !.synthetic_expansion_infos = MapPut(@, pos, fresh.ctxt)])

\* the TAG_EXPANSION_INFO_INLINE arm
DecodeInlineContext(cx, d) ==
    Then(DecodeExpnInfo(cx, d), LAMBDA expn_info :
        InsertContext(expn_info.d, AbsoluteBytePos(d.pos), expn_info.val))

\* the TAG_EXPANSION_INFO_SHORTHAND arm when the position is not cached
ShorthandMiss(cx, d, pos) ==
    Then(with_position(cx, d, pos, LAMBDA this : DecodeExpnInfo(cx, this)),
         LAMBDA expn_info :
             InsertContext(expn_info.d, pos, expn_info.val))

\* the TAG_EXPANSION_INFO_SHORTHAND arm
DecodeShorthandContext(cx, d) ==
    LET pos == DecodeInt(cx, d)
    IN  CASE ~pos.ok -> pos
          [] pos.ok /\ pos.val \in DOMAIN pos.d.synthetic_expansion_infos ->
                Ok(pos.d.synthetic_expansion_infos[pos.val], pos.d)
          [] OTHER -> ShorthandMiss(cx, pos.d, pos.val)

\* the match on expn_info_tag
DecodeContext(cx, d, expn_info_tag) ==
    CASE expn_info_tag = TAG_NO_EXPANSION_INFO -> Ok(EmptyContext, d)
      [] expn_info_tag = TAG_EXPANSION_INFO_INLINE -> DecodeInlineContext(cx, d)
      [] expn_info_tag = TAG_EXPANSION_INFO_SHORTHAND ->
            DecodeShorthandContext(cx, d)
      [] OTHER -> Fail(d)

\* The first half of the Span decoder: the tag and, for a valid span,
\* everything up to the tag of the expansion info.  Ok([dummy |-> TRUE]) is
\* the early return of DUMMY_SP.
DecodeSpanHead(cx, d) ==
    LET tag == DecodeU8(cx, d)
    IN  CASE ~tag.ok -> tag
          [] tag.ok /\ tag.val = TAG_INVALID_SPAN ->
                Ok([dummy |-> TRUE], tag.d)
          [] tag.ok /\ tag.val # TAG_INVALID_SPAN
                /\ cx.debug_assertions /\ tag.val # TAG_VALID_SPAN ->
                Fail(tag.d)
          [] OTHER ->
                Then(DecodeSpanData(cx, tag.d), LAMBDA data :
                    Ok([dummy |-> FALSE, lo |-> data.val.lo, hi |-> data.val.hi,
                        expn_info_tag |-> data.val.expn_info_tag], data.d))

\* SpecializedDecoder<Span>::specialized_decode
DecodeSpan(cx, d) ==
    Then(DecodeSpanHead(cx, d), LAMBDA head :
        IF head.val.dummy THEN Ok(DUMMY_SP, head.d)
        ELSE Then(DecodeContext(cx, head.d, head.val.expn_info_tag),
                  LAMBDA ctxt :
                      Ok(Span(head.val.lo, head.val.hi, ctxt.val), ctxt.d)))

(***************************************************************************)
(* A process that writes spans and the process that reads them back.       *)
(***************************************************************************)
\* the most marks a session may hold when a span decoder is started
MaxMarks == 4

\* the codemap of the writing session: two files of two lines each
WriterCodemap ==
    <<FileMap(71, 0, 9, <<0, 4>>), FileMap(72, 10, 19, <<10, 15>>)>>

\* the same two files, loaded in the other order and at other positions
ReaderCodemap ==
    <<FileMap(72, 0, 9, <<0, 5>>), FileMap(71, 20, 29, <<20, 24>>)>>

\* The expansions of the writing session.  Mark 1 was expanded at a plain
\* call site, mark 2 at a call site that itself lies in the expansion of
\* mark 1, mark 3 carries no info, mark 4 is another expansion of the macro
\* of mark 1 at the same call site, so its info equals that of mark 1.
\* Contexts 1 and 2 have the outer mark 1, context 3 the outer mark 2,
\* context 4 the outer mark 3 and context 5 the outer mark 4.
WriterHygiene ==
    [marks           |-> <<[expn_info |-> None],
                           [expn_info |-> Some(ExpnInfo(Span(1, 3, 0), 5))],
                           [expn_info |-> Some(ExpnInfo(Span(11, 12, 1), 6))],
                           [expn_info |-> None],
                           [expn_info |-> Some(ExpnInfo(Span(1, 3, 0), 5))]>>,
     syntax_contexts |-> <<[outer_mark |-> 0], [outer_mark |-> 1],
                           [outer_mark |-> 1], [outer_mark |-> 2],
                           [outer_mark |-> 3], [outer_mark |-> 4]>>]

\* the hygiene data of a reading session that has expanded one macro itself
ReaderHygiene ==
    [marks           |-> <<[expn_info |-> None],
                           [expn_info |-> Some(ExpnInfo(Span(21, 22, 0), 9))]>>,
     syntax_contexts |-> <<[outer_mark |-> 0], [outer_mark |-> 1]>>]

\* a session with a codemap, hygiene data and a query cache that holds the
\* span spans[i] for the identity i - 1
SpanSession(codemap, hygiene, spans) ==
    [codemap |-> codemap, hygiene |-> hygiene]
        @@ [FreshSession EXCEPT
               !.files = [i \in 1..Len(codemap) |-> codemap[i].stable_id],
               !.results = [i \in 1..Len(spans) |-> Entry(i - 1, spans[i])]]

\* The cached spans of the writing sessions, by identity 0, 1, ..: the dummy
\* span and spans that are not valid; one context met twice and three
\* times; two contexts of one mark; an expansion inside an expansion; two
\* marks with equal info.
SpanLists ==
    { <<DUMMY_SP, Span(2, 3, 0)>>,
      <<Span(5, 2, 0), Span(8, 12, 0), Span(25, 26, 0)>>,
      <<Span(1, 4, 1), Span(5, 6, 1)>>,
      <<Span(1, 4, 1), Span(12, 16, 2)>>,
      <<Span(1, 2, 4), Span(5, 6, 1), Span(6, 7, 1)>>,
      <<Span(11, 13, 3), Span(1, 2, 1)>>,
      <<Span(1, 4, 1), Span(5, 6, 5)>> }

SpanWriterPool ==
    { SpanSession(WriterCodemap, WriterHygiene, spans) : spans \in SpanLists }

SpanReaderPool ==
    { SpanSession(ReaderCodemap, NoHygiene, <<>>),
      SpanSession(ReaderCodemap, ReaderHygiene, <<>>) }

\* A process that starts without a cache file and has cached spans.
InitSpan ==
    /\ InitProcess
    /\ store = new_empty
    /\ prev = NoPrev
    /\ tcx \in SpanWriterPool

\* serialize, up to the construction of the CacheEncoder
SerializeStart ==
    /\ phase = "active"
    /\ prev = NoPrev
    /\ AllIdle
    /\ enc' = NewEncoder(tcx)
    /\ phase' = "serializing"
    /\ UNCHANGED <<store, tcx, th, trapped, prev, debug_assertions>>

\* serialize, the body of the loop of encode_query_results for a query
\* whose value is a span
SerializeSpanResult ==
    /\ phase = "serializing"
    /\ Len(enc.query_result_index) < Len(tcx.results)
    /\ LET entry    == tcx.results[Len(enc.query_result_index) + 1]
           dep_node == entry.index
       IN  enc' = EncodeSpan(
                      [enc EXCEPT !.query_result_index =
                           Append(@, <<dep_node, AbsoluteBytePos(Position(enc))>>)],
                      tcx, entry.value)
    /\ UNCHANGED <<store, tcx, th, phase, trapped, prev, debug_assertions>>

\* serialize, from the end of the query results to its return
SerializeEnd ==
    /\ phase = "serializing"
    /\ Len(enc.query_result_index) = Len(tcx.results)
    /\ enc' = SerializeTail(enc, tcx)
    /\ phase' = "serialized"
    /\ UNCHANGED <<store, tcx, th, trapped, prev, debug_assertions>>

\* the next process, whose session is one of readers, opens the bytes with
\* OnDiskCache::new; its workers have looked nothing up yet
OpenNext(readers) ==
    /\ phase = "serialized"
    /\ prev = NoPrev
    /\ \E opened \in { new(enc.bytes) } :
          /\ ~IsAbort(opened)
          /\ store' = opened
    /\ prev' = [tcx |-> tcx, current_diagnostics |-> store.current_diagnostics,
                enc |-> enc]
    /\ tcx' \in readers
    /\ enc' = NoEnc
    /\ th' = [t \in Threads |-> IdleThread]
    /\ phase' = "active"
    /\ UNCHANGED <<trapped, debug_assertions>>

\* the CacheDecoder that load_indexed builds, as far as spans use it
SpanDecoderContext(st, t) ==
    [data                    |-> st.serialized_data,
     file_index_to_stable_id |-> st.file_index_to_stable_id,
     codemap                 |-> t.codemap,
     debug_assertions        |-> debug_assertions]

SpanDecoder(st, t, pos) ==
    [pos                       |-> pos,
     file_index_to_file        |-> st.file_index_to_file,
     synthetic_expansion_infos |-> st.synthetic_expansion_infos,
     hygiene                   |-> t.hygiene]

\* The Span decoder up to the point at which it has looked for a shorthand
\* position in synthetic_expansion_infos and released the lock: when the
\* position is not cached the decoder stands before the with_position call
\* (done = FALSE), in every other case the span is decoded (done = TRUE).
BeginSpan(cx, d) ==
    Then(DecodeSpanHead(cx, d), LAMBDA head :
        LET pos == DecodeInt(cx, head.d)
        IN  CASE head.val.dummy ->
                    Ok([done |-> TRUE, span |-> DUMMY_SP], head.d)
              [] ~head.val.dummy
                    /\ head.val.expn_info_tag = TAG_EXPANSION_INFO_SHORTHAND
                    /\ pos.ok
                    /\ pos.val \notin DOMAIN pos.d.synthetic_expansion_infos ->
                    Ok([done |-> FALSE, lo |-> head.val.lo, hi |-> head.val.hi,
                        pos |-> pos.val], pos.d)
              [] OTHER ->
                    Then(DecodeContext(cx, head.d, head.val.expn_info_tag),
                         LAMBDA ctxt :
                             Ok([done |-> TRUE,
                                 span |-> Span(head.val.lo, head.val.hi, ctxt.val)],
                                ctxt.d)))

\* what a span decoder leaves in the store and in the session
SpanCommit(d) ==
    /\ store' = [store EXCEPT
                    !.file_index_to_file = d.file_index_to_file,
                    !.synthetic_expansion_infos = d.synthetic_expansion_infos]
    /\ tcx' = [tcx EXCEPT !.hygiene = d.hygiene]

\* a worker decodes the span cached for dep_node_index, up to its return or
\* to the miss of a shorthand position
SpanDecodeBegin(t, dep_node_index) ==
    /\ phase = "active"
    /\ th[t].pc = "idle"
    /\ Len(tcx.hygiene.marks) <= MaxMarks
    /\ dep_node_index \in DOMAIN store.query_result_index
    /\ \E r \in { BeginSpan(SpanDecoderContext(store, tcx),
                            SpanDecoder(store, tcx,
                                        store.query_result_index[dep_node_index])) } :
          IF ~r.ok
          THEN /\ th' = [th EXCEPT ![t] =
                            [pc |-> "idle", id |-> dep_node_index,
                             index |-> QueryResults, computed |-> None,
                             result |-> Abort]]
               /\ phase' = "aborted"
               /\ UNCHANGED <<store, tcx>>
          ELSE /\ th' = [th EXCEPT ![t] =
                            IF r.val.done
                            THEN [pc |-> "idle", id |-> dep_node_index,
                                  index |-> QueryResults, computed |-> None,
                                  result |-> Some(r.val.span)]
                            ELSE [pc |-> "miss", id |-> dep_node_index,
                                  index |-> QueryResults,
                                  computed |-> Some(r.val),
                                  result |-> NotLoaded]]
               /\ SpanCommit(r.d)
               /\ phase' = phase
    /\ UNCHANGED <<enc, trapped, prev, debug_assertions>>

\* the worker goes on after the miss: the expansion info is decoded at the
\* shorthand position, a context is allocated for it and inserted
SpanDecodeFinish(t) ==
    /\ phase = "active"
    /\ th[t].pc = "miss"
    /\ \E r \in { ShorthandMiss(SpanDecoderContext(store, tcx),
                                SpanDecoder(store, tcx, 0),
                                th[t].computed.some.pos) } :
          IF ~r.ok
          THEN /\ th' = [th EXCEPT ![t].pc = "idle", ![t].computed = None,
                                   ![t].result = Abort]
               /\ phase' = "aborted"
               /\ UNCHANGED <<store, tcx>>
          ELSE /\ th' = [th EXCEPT
                            ![t].pc = "idle", ![t].computed = None,
                            ![t].result = Some(Span(th[t].computed.some.lo,
                                                    th[t].computed.some.hi,
                                                    r.val))]
               /\ SpanCommit(r.d)
               /\ phase' = phase
    /\ UNCHANGED <<enc, trapped, prev, debug_assertions>>

NextSpan ==
    \/ SerializeStart
    \/ SerializeSpanResult
    \/ SerializeEnd
    \/ OpenNext(SpanReaderPool)
    \/ \E t \in Threads, i \in 0..2 : SpanDecodeBegin(t, i)
    \/ \E t \in Threads : SpanDecodeFinish(t)

\* a process that caches spans, and its successor whose workers load them
SpecSpan == InitSpan /\ [][NextSpan]_vars

\* A process at the time it is about to serialize what the sessions of
\* WriterPool have cached and the accumulators of AccumulatorPool hold.
InitReopen ==
    /\ InitProcess
    /\ \E acc \in AccumulatorPool :
          store = [new_empty EXCEPT !.current_diagnostics = acc]
    /\ prev = NoPrev
    /\ tcx \in WriterPool

NextReopen ==
    \/ SerializeBegin
    \/ SerializeAllocPass
    \/ SerializeFinish
    \/ OpenNext({FreshSession})

\* a process that serializes its cache, and its successor, which opens the
\* stream with OnDiskCache::new
SpecReopen == InitReopen /\ [][NextReopen]_vars

\* what the query caches may hold for identity i with the value v: nothing;
\* a result of a query that is cached on disk and of one that is not; a
\* constant evaluation that succeeded, one that failed, and one that
\* succeeded for a key that is not cached on disk
PersistChoices(i, v) ==
    { <<>>,
      <<Entry(i, v)>>,
      <<Ineligible(Entry(i, v))>>,
      <<ConstEval(Entry(i, v), TRUE)>>,
      <<ConstEval(Entry(i, v), FALSE)>>,
      <<Ineligible(ConstEval(Entry(i, v), TRUE))>> }

\* the writing sessions, their caches in either iteration order
PersistPool ==
    { Session(<<1, 2>>, CratesCoreAlloc, results, AllocCyclic) :
        results \in UNION { { a \o b, b \o a } :
            <<a, b>> \in PersistChoices(0, <<IntItem(300), AllocItem(1)>>)
                            \X PersistChoices(1, <<IntItem(5)>>) } }

\* A process about to serialize the caches of a session of PersistPool,
\* with or without diagnostics in its accumulator.
InitPersist ==
    /\ InitProcess
    /\ \E acc \in { EmptyMap, (1 :> <<IntItem(2)>>) } :
          store = [new_empty EXCEPT !.current_diagnostics = acc]
    /\ prev = NoPrev
    /\ tcx \in PersistPool

NextPersist ==
    \/ SerializeBegin
    \/ SerializeAllocPass
    \/ SerializeFinish
    \/ OpenNext({FreshSession})
    \/ LoadStep(FirstThread)

\* a process that serializes its caches, and its successor, which opens the
\* stream and looks results up
SpecPersist == InitPersist /\ [][NextPersist]_vars

\* The codemaps of two more reading sessions: the two files as the writer
\* had them, loaded in the other order; and the first file as the writer
\* had it, the second at another position.
SameCodemap ==
    <<FileMap(72, 10, 19, <<10, 15>>), FileMap(71, 0, 9, <<0, 4>>)>>

MixedCodemap ==
    <<FileMap(71, 0, 9, <<0, 4>>), FileMap(72, 30, 39, <<30, 35>>)>>

\* Cached spans for the round trip: the dummy span and the span from 0 to 0
\* inside an expansion; spans within a line, across lines and up to the end
\* of a file; spans that end before they start, end in the next file, start
\* at the end of a file or outside every file.
TripLists ==
    { <<DUMMY_SP, Span(0, 0, 1), Span(6, 9, 1)>>,
      <<Span(5, 2, 0), Span(8, 12, 0), Span(25, 26, 0)>>,
      <<Span(9, 9, 0), Span(3, 7, 0), Span(16, 19, 0)>>,
      <<Span(12, 12, 0), Span(0, 9, 4)>> }

TripWriterPool ==
    { SpanSession(WriterCodemap, WriterHygiene, spans) : spans \in TripLists }

TripReaderPool ==
    { SpanSession(SameCodemap, NoHygiene, <<>>),
      SpanSession(MixedCodemap, NoHygiene, <<>>) }

InitTrip ==
    /\ InitProcess
    /\ store = new_empty
    /\ prev = NoPrev
    /\ tcx \in TripWriterPool

NextTrip ==
    \/ SerializeStart
    \/ SerializeSpanResult
    \/ SerializeEnd
    \/ OpenNext(TripReaderPool)
    \/ \E t \in Threads, i \in 0..2 : SpanDecodeBegin(t, i)
    \/ \E t \in Threads : SpanDecodeFinish(t)

\* a process that caches spans, and its successor, which has loaded the
\* same files, whose workers load the spans
SpecTrip == InitTrip /\ [][NextTrip]_vars

(***************************************************************************)
(* DEF IDS.  A DefId is a crate number and a DefIndex, both valid in one   *)
(* session only; a DefPathHash is a Fingerprint, two u64.  The session     *)
(* gives the hash of each of its DefIds (tcx.def_path_hash) and, in the    *)
(* reading process, the DefId of each hash (tcx.def_path_hash_to_def_id).  *)
(***************************************************************************)
DefId(krate, index) == [krate |-> krate, index |-> index]

\* LocalDefId::to_def_id
to_def_id(local_def_id) == DefId(LOCAL_CRATE, local_def_id)

\* TyCtxt::def_path_hash
def_path_hash(t, id) == t.def_path_hashes[id]

\* Fingerprint::encode_opaque: the two halves, eight bytes each, lowest first
EncodeFingerprint(e, f) ==
    Emit(e, FixedSizeBytes(f[1], 0) \o FixedSizeBytes(f[2], 0))

\* a DefId encoder that writes the crate number and the index
EncodeDefId_Numbers(e, t, id) == emit_u32(emit_u32(e, id.krate), id.index)

\* SpecializedEncoder<DefId>::specialized_encode
EncodeDefId(e, t, id) == EncodeFingerprint(e, def_path_hash(t, id))

\* SpecializedEncoder<LocalDefId>::specialized_encode
EncodeLocalDefId(e, t, id) == EncodeDefId(e, t, to_def_id(id))

\* SpecializedDecoder<Fingerprint>: Fingerprint::decode_opaque
DecodeFingerprint(cx, d) ==
    LET r == ReadBytes(cx.data, d.pos, 2 * ENCODED_SIZE)
    IN  IF r.ok
        THEN Ok(<<FixedSizeValue(SubSeq(r.val, 1, ENCODED_SIZE), 1),
                  FixedSizeValue(SubSeq(r.val, ENCODED_SIZE + 1,
                                        2 * ENCODED_SIZE), 1)>>,
                [d EXCEPT !.pos = r.pos])
        ELSE Fail(d)

\* a DefId decoder that answers a hash it cannot resolve with a DefId
DecodeDefId_Unresolved(cx, d) ==
    Then(DecodeFingerprint(cx, d), LAMBDA hash :
        CASE ~IsSome(cx.def_path_hash_to_def_id) -> Fail(hash.d)
          [] IsSome(cx.def_path_hash_to_def_id)
                /\ hash.val \notin DOMAIN cx.def_path_hash_to_def_id.some ->
                Ok(DefId(LOCAL_CRATE, 0), hash.d)
          [] OTHER -> Ok(cx.def_path_hash_to_def_id.some[hash.val],
                         hash.d))

\* SpecializedDecoder<DefId>::specialized_decode; unwrap() of an absent
\* table and the indexing with an unknown hash panic
DecodeDefId(cx, d) ==
    Then(DecodeFingerprint(cx, d), LAMBDA hash :
        CASE ~IsSome(cx.def_path_hash_to_def_id) -> Fail(hash.d)
          [] IsSome(cx.def_path_hash_to_def_id)
                /\ hash.val \notin DOMAIN cx.def_path_hash_to_def_id.some ->
                Fail(hash.d)
          [] OTHER -> Ok(cx.def_path_hash_to_def_id.some[hash.val],
                         hash.d))

\* SpecializedDecoder<LocalDefId>::specialized_decode; LocalDefId::from_def_id
\* asserts that the DefId is local
DecodeLocalDefId(cx, d) ==
    Then(DecodeDefId(cx, d), LAMBDA def_id :
        IF def_id.val.krate = LOCAL_CRATE
        THEN Ok(def_id.val.index, def_id.d)
        ELSE Fail(def_id.d))

\* the values of the two query kinds of the model
DefIdValue(id) == [kind |-> "DefId", id |-> id]

LocalDefIdValue(id) == [kind |-> "LocalDefId", id |-> id]

\* a session with the hashes of its DefIds, the table from hashes to DefIds
\* and a query cache that holds values[i] for the identity i - 1
DefIdSession(def_path_hashes, def_path_hash_to_def_id, values) ==
    [def_path_hashes |-> def_path_hashes,
     def_path_hash_to_def_id |-> def_path_hash_to_def_id]
        @@ [FreshSession EXCEPT
               !.results = [i \in 1..Len(values) |-> Entry(i - 1, values[i])]]

HashA == <<3, 7>>

HashB == <<300, 0>>

HashC == <<5, 65536>>

\* the writing session: two local definitions and one of crate 1
WriterDefPathHashes ==
    (DefId(0, 1) :> HashA) @@ (DefId(0, 2) :> HashB) @@ (DefId(1, 1) :> HashC)

DefIdLists ==
    { <<DefIdValue(DefId(0, 1)), DefIdValue(DefId(1, 1))>>,
      <<LocalDefIdValue(2), DefIdValue(DefId(0, 2))>>,
      <<LocalDefIdValue(1), DefIdValue(DefId(1, 1)), LocalDefIdValue(2)>> }

DefIdWriterPool ==
    { DefIdSession(WriterDefPathHashes, None, values) : values \in DefIdLists }

\* The reading sessions: nothing changed; the definitions were renumbered
\* and crate 1 is now crate 2; the definition with HashB is gone; the
\* definition with HashA has moved to crate 1.
DefIdReaderPool ==
    { DefIdSession(EmptyMap, Some(table), <<>>) :
        table \in
          { (HashA :> DefId(0, 1)) @@ (HashB :> DefId(0, 2)) @@ (HashC :> DefId(1, 1)),
            (HashA :> DefId(0, 5)) @@ (HashB :> DefId(0, 1)) @@ (HashC :> DefId(2, 1)),
            (HashA :> DefId(0, 1)) @@ (HashC :> DefId(1, 1)),
            (HashA :> DefId(1, 4)) @@ (HashB :> DefId(0, 2)) @@ (HashC :> DefId(1, 1)) } }

\* A process that starts without a cache file and has cached DefIds.
InitDefId ==
    /\ InitProcess
    /\ store = new_empty
    /\ prev = NoPrev
    /\ tcx \in DefIdWriterPool

\* serialize, the body of the loop of encode_query_results for a query
\* whose value is a DefId or a LocalDefId
SerializeDefIdResult ==
    /\ phase = "serializing"
    /\ Len(enc.query_result_index) < Len(tcx.results)
    /\ LET entry    == tcx.results[Len(enc.query_result_index) + 1]
           dep_node == entry.index
           e1       == [enc EXCEPT !.query_result_index =
                           Append(@, <<dep_node, AbsoluteBytePos(Position(enc))>>)]
       IN  enc' = IF entry.value.kind = "DefId"
                  THEN EncodeDefId(e1, tcx, entry.value.id)
                  ELSE EncodeLocalDefId(e1, tcx, entry.value.id)
    /\ UNCHANGED <<store, tcx, th, phase, trapped, prev, debug_assertions>>

\* the CacheDecoder that load_indexed builds, as far as DefIds use it
DefIdDecoderContext(st, t) ==
    [data                    |-> st.serialized_data,
     def_path_hash_to_def_id |-> t.def_path_hash_to_def_id,
     debug_assertions        |-> debug_assertions]

\* the value that the previous session cached for dep_node_index
CachedBefore(dep_node_index) ==
    LET i == CHOOSE i \in DOMAIN prev.tcx.results :
                prev.tcx.results[i].index = dep_node_index
    IN  prev.tcx.results[i].value

\* a worker decodes the DefId or LocalDefId cached for dep_node_index; the
\* query that owns the dep node says which of the two it is
DefIdDecode(t, dep_node_index) ==
    /\ phase = "active"
    /\ th[t].pc = "idle"
    /\ dep_node_index \in DOMAIN store.query_result_index
    /\ LET cx == DefIdDecoderContext(store, tcx)
           d  == [pos |-> store.query_result_index[dep_node_index]]
           r  == IF CachedBefore(dep_node_index).kind = "DefId"
                 THEN DecodeDefId(cx, d)
                 ELSE DecodeLocalDefId(cx, d)
       IN  /\ th' = [th EXCEPT ![t] =
                        [pc |-> "idle", id |-> dep_node_index,
                         index |-> QueryResults, computed |-> None,
                         result |-> IF r.ok THEN Some(r.val) ELSE Abort]]
           /\ phase' = IF r.ok THEN phase ELSE "aborted"
    /\ UNCHANGED <<store, tcx, enc, trapped, prev, debug_assertions>>

NextDefId ==
    \/ SerializeStart
    \/ SerializeDefIdResult
    \/ SerializeEnd
    \/ OpenNext(DefIdReaderPool)
    \/ \E t \in Threads, i \in 0..2 : DefIdDecode(t, i)

\* a process that caches DefIds, and its successor whose workers load them
SpecDefId == InitDefId /\ [][NextDefId]_vars

(***************************************************************************)
(* DEFINDEX AND HIRID.  A DefIndex on its own has no codec: both impls are *)
(* a bug!().  A HirId is an owner (a DefIndex of the local crate) and a    *)
(* local id; the owner travels as its DefPathHash.                         *)
(***************************************************************************)
HirId(owner, local_id) == [owner |-> owner, local_id |-> local_id]

\* SpecializedEncoder<hir::HirId>::specialized_encode
EncodeHirId(e, t, id) ==
    emit_u32(EncodeFingerprint(e, def_path_hash(t, to_def_id(id.owner))),
             id.local_id)

\* a DefIndex encoder that writes the index
EncodeDefIndex_Raw(e, t, index) == emit_u32(e, index)

\* SpecializedEncoder<DefIndex>::specialized_encode: bug!()
EncodeDefIndex(e, t, index) == Abort

\* SpecializedDecoder<hir::HirId>::specialized_decode; unwrap() of an absent
\* table and the indexing with an unknown hash panic, and so does
\* debug_assert!(def_id.is_local()) in a debug build
DecodeHirId(cx, d) ==
    Then(DecodeFingerprint(cx, d), LAMBDA hash :
        CASE ~IsSome(cx.def_path_hash_to_def_id) -> Fail(hash.d)
          [] IsSome(cx.def_path_hash_to_def_id)
                /\ hash.val \notin DOMAIN cx.def_path_hash_to_def_id.some ->
                Fail(hash.d)
          [] OTHER ->
                LET def_id == cx.def_path_hash_to_def_id.some[hash.val]
                IN  IF cx.debug_assertions /\ def_id.krate # LOCAL_CRATE
                    THEN Fail(hash.d)
                    ELSE Then(DecodeInt(cx, hash.d), LAMBDA local_id :
                             Ok(HirId(def_id.index, local_id.val), local_id.d)))

\* SpecializedDecoder<DefIndex>::specialized_decode: bug!()
DecodeDefIndex(cx, d) == Fail(d)

HirIdValue(owner, local_id) == [kind |-> "HirId", id |-> HirId(owner, local_id)]

DefIndexValue(index) == [kind |-> "DefIndex", id |-> index]

\* Encodable for the value of a query of the model
EncodeIndexValue(e, t, value) ==
    CASE value.kind = "DefId"      -> EncodeDefId(e, t, value.id)
      [] value.kind = "LocalDefId" -> EncodeLocalDefId(e, t, value.id)
      [] value.kind = "HirId"      -> EncodeHirId(e, t, value.id)
      [] value.kind = "DefIndex"   -> EncodeDefIndex(e, t, value.id)

\* Decodable for the value of a query of the model
DecodeIndexValue(cx, d, kind) ==
    CASE kind = "DefId"      -> DecodeDefId(cx, d)
      [] kind = "LocalDefId" -> DecodeLocalDefId(cx, d)
      [] kind = "HirId"      -> DecodeHirId(cx, d)
      [] kind = "DefIndex"   -> DecodeDefIndex(cx, d)

\* what the writing sessions have cached: HirIds, DefIds, and in two of the
\* sessions a DefIndex that is not inside a DefId
DefIndexLists ==
    { <<HirIdValue(1, 4), DefIdValue(DefId(0, 1))>>,
      <<HirIdValue(2, 300), LocalDefIdValue(1), HirIdValue(1, 0)>>,
      <<DefIndexValue(2)>>,
      <<HirIdValue(1, 1), DefIndexValue(1), DefIdValue(DefId(1, 1))>> }

DefIndexWriterPool ==
    { DefIdSession(WriterDefPathHashes, None, values) : values \in DefIndexLists }

\* A process that starts without a cache file and has cached such values.
InitDefIndex ==
    /\ InitProcess
    /\ store = new_empty
    /\ prev = NoPrev
    /\ tcx \in DefIndexWriterPool

\* serialize, the body of the loop of encode_query_results for one cache
\* entry; the bug!() of the DefIndex encoder ends the process
SerializeIndexResult ==
    /\ phase = "serializing"
    /\ Len(enc.query_result_index) < Len(tcx.results)
    /\ LET entry    == tcx.results[Len(enc.query_result_index) + 1]
           dep_node == entry.index
           e1       == [enc EXCEPT !.query_result_index =
                           Append(@, <<dep_node, AbsoluteBytePos(Position(enc))>>)]
           e2       == EncodeIndexValue(e1, tcx, entry.value)
       IN  IF IsAbort(e2)
           THEN /\ phase' = "aborted"
                /\ UNCHANGED enc
           ELSE /\ enc' = e2
                /\ phase' = phase
    /\ UNCHANGED <<store, tcx, th, trapped, prev, debug_assertions>>

\* a worker decodes the value cached for dep_node_index as a value of kind
\* `kind`
DecodeAs(t, dep_node_index, kind) ==
    /\ phase = "active"
    /\ th[t].pc = "idle"
    /\ dep_node_index \in DOMAIN store.query_result_index
    /\ LET cx == DefIdDecoderContext(store, tcx)
           d  == [pos |-> store.query_result_index[dep_node_index]]
           r  == DecodeIndexValue(cx, d, kind)
       IN  /\ th' = [th EXCEPT ![t] =
                        [pc |-> "idle", id |-> dep_node_index,
                         index |-> QueryResults, computed |-> None,
                         result |-> IF r.ok THEN Some(r.val) ELSE Abort]]
           /\ phase' = IF r.ok THEN phase ELSE "aborted"
    /\ UNCHANGED <<store, tcx, enc, trapped, prev, debug_assertions>>

\* a worker loads the value cached for dep_node_index; the query that owns
\* the dep node says of which kind it is
IndexDecode(t, dep_node_index) ==
    /\ prev # NoPrev
    /\ dep_node_index \in DOMAIN store.query_result_index
    /\ DecodeAs(t, dep_node_index, CachedBefore(dep_node_index).kind)

\* a worker asks the decoder for a DefIndex at the record of dep_node_index
DecodeBareIndex(t, dep_node_index) == DecodeAs(t, dep_node_index, "DefIndex")

NextDefIndex ==
    \/ SerializeStart
    \/ SerializeIndexResult
    \/ SerializeEnd
    \/ OpenNext(DefIdReaderPool)
    \/ \E t \in Threads, i \in 0..2 : IndexDecode(t, i)
    \/ \E t \in Threads, i \in 0..2 : DecodeBareIndex(t, i)

\* a process that caches HirIds, DefIds and DefIndexes, and its successor
\* whose workers load them
SpecDefIndex == InitDefIndex /\ [][NextDefIndex]_vars

(***************************************************************************)
(* WHAT A VALUE MEANS IN A SESSION                                         *)
(*                                                                         *)
(* Crate numbers and allocation ids are names that are only valid inside   *)
(* one session.  Two values of two sessions are the same value when they   *)
(* agree once every crate number is replaced by the crate it names and     *)
(* every allocation id by the place at which a walk from the value first   *)
(* meets the allocation.                                                   *)
(***************************************************************************)
RECURSIVE Discover(_, _)
Discover(order, refs) ==
    IF refs = <<>> THEN order
    ELSE Discover(IF Head(refs) \in Range(order) THEN order
                  ELSE Append(order, Head(refs)),
                  Tail(refs))

RECURSIVE Closure(_, _, _)
Closure(order, i, allocs) ==
    IF i > Len(order) THEN order
    ELSE Closure(Discover(order, allocs[order[i]].refs), i + 1, allocs)

RECURSIVE AllocRefsOf(_)
AllocRefsOf(value) ==
    IF value = <<>> THEN <<>>
    ELSE (IF Head(value).k = "Alloc" THEN <<Head(value).v>> ELSE <<>>)
            \o AllocRefsOf(Tail(value))

\* the allocations a value reaches, in the order a walk meets them
ReachableFrom(value, allocs) ==
    Closure(Discover(<<>>, AllocRefsOf(value)), 1, allocs)

LabelOf(order, a) == CHOOSE i \in 1..Len(order) : order[i] = a

\* the crate a number names in a session
CrateOf(t, cnum) ==
    IF cnum \in DOMAIN t.crate_info THEN t.crate_info[cnum]
    ELSE [unknown |-> cnum]

MeaningIn(value, t, order) ==
    [items  |-> [i \in 1..Len(value) |->
                   IF value[i].k = "Cnum"
                   THEN [k |-> "Cnum", v |-> CrateOf(t, value[i].v)]
                   ELSE IF value[i].k = "Alloc"
                   THEN [k |-> "Alloc", v |-> LabelOf(order, value[i].v)]
                   ELSE value[i]],
     allocs |-> [j \in 1..Len(order) |->
                   [data |-> t.allocs[order[j]].data,
                    refs |-> [r \in 1..Len(t.allocs[order[j]].refs) |->
                                LabelOf(order, t.allocs[order[j]].refs[r])]]]]

Meaning(value, t) ==
    Let(ReachableFrom(value, t.allocs), LAMBDA order : MeaningIn(value, t, order))

\* the crates a session is compiled against, itself included
LiveCrates(t) == { t.crate_info[c] : c \in Range(t.crates) \cup {LOCAL_CRATE} }

\* every crate a value names in the session that wrote it is still there
CratesStillLive(value, writer, reader) ==
    \A i \in 1..Len(value) :
        value[i].k = "Cnum" =>
            writer.crate_info[value[i].v] \in LiveCrates(reader)

\* the results of identity i that the writing session had and that are
\* eligible for the disk
EligibleResults(writer, i) ==
    { writer.results[j].value : j \in
        { j \in 1..Len(writer.results) :
            /\ writer.results[j].index = i
            /\ writer.results[j].cache_on_disk
            /\ writer.results[j].query = "const_eval" => writer.results[j].ok } }

\* a worker that is back from load_indexed(index, ..)
Returned(t, index) ==
    /\ th[t].pc = "idle"
    /\ th[t].result # NotLoaded
    /\ th[t].index = index

(***************************************************************************)
(* CLAIMS                                                                  *)
(***************************************************************************)
\* C1: Round trip of query results.  When a session serializes and the next
\* process opens the bytes, try_load_query_result(i) returns None for an
\* identity i that had no eligible result, and for an identity with an
\* eligible result v whose crates are all still part of the reading session
\* it returns a value that means in the reading session what v meant in the
\* writing one (crate numbers and allocation ids translated).
C1_QueryResultRoundTrip ==
    \A t \in Threads :
        Returned(t, QueryResults) =>
            LET written == EligibleResults(prev.tcx, th[t].id)
            IN  /\ written = {} => th[t].result = None
                /\ \A v \in written :
                      CratesStillLive(v, prev.tcx, tcx) =>
                          /\ IsSome(th[t].result)
                          /\ Meaning(th[t].result.some, tcx) = Meaning(v, prev.tcx)

\* a value with a crate number and an allocation came back in a session in
\* which the crates are numbered differently
C1_Witness ==
    \E t \in Threads :
        /\ Returned(t, QueryResults)
        /\ IsSome(th[t].result)
        /\ \E i, j \in 1..Len(th[t].result.some) :
              /\ th[t].result.some[i].k = "Cnum"
              /\ th[t].result.some[j].k = "Alloc"
        /\ tcx.crates # prev.tcx.crates
        /\ EligibleResults(prev.tcx, th[t].id) # {}

\* load_diagnostics: load_indexed(..).unwrap_or(Vec::new())
load_diagnostics(result) == IF IsSome(result) THEN result.some ELSE <<>>

\* C2: Round trip of diagnostics.  If the accumulator of the writing session
\* holds the list L for identity i when the session serializes, then in the
\* process that opens the bytes load_diagnostics(i) returns a list that
\* means the same as L; for an identity without a list it returns the
\* empty list.
C2_DiagnosticsRoundTrip ==
    \A t \in Threads :
        Returned(t, Diagnostics) =>
            IF th[t].id \in DOMAIN prev.current_diagnostics
            THEN /\ ~IsAbort(th[t].result)
                 /\ Meaning(load_diagnostics(th[t].result), tcx)
                       = Meaning(prev.current_diagnostics[th[t].id], prev.tcx)
            ELSE th[t].result = None /\ load_diagnostics(th[t].result) = <<>>

\* a list of two diagnostics came back
C2_Witness ==
    \E t \in Threads :
        /\ Returned(t, Diagnostics)
        /\ th[t].id \in DOMAIN prev.current_diagnostics
        /\ IsSome(th[t].result)
        /\ Len(th[t].result.some) >= 2

\* C3: load_indexed returns None exactly when the identity is not a key of
\* the index it is given; for an identity that is a key it returns the
\* decoded value or aborts the process, so a failure to decode is never
\* turned into None.
C3_MissIffAbsent ==
    \A t \in Threads :
        /\ th[t].pc # "idle" => th[t].id \in DOMAIN IndexOf(store, th[t].index)
        /\ (th[t].pc = "idle" /\ th[t].result # NotLoaded) =>
              /\ th[t].result = None
                    <=> th[t].id \notin DOMAIN IndexOf(store, th[t].index)
              /\ th[t].id \in DOMAIN IndexOf(store, th[t].index) =>
                    \/ IsSome(th[t].result)
                    \/ IsAbort(th[t].result) /\ phase = "aborted"

\* a load of a key whose record cannot be decoded in this session (it names
\* a crate that is gone) has aborted the process
C3_Witness ==
    \E t \in Threads :
        /\ th[t].pc = "idle"
        /\ th[t].id \in DOMAIN IndexOf(store, th[t].index)
        /\ IsAbort(th[t].result)
        /\ phase = "aborted"


C5_AnonStoreAppends ==
    [][\A i \in Ids, diagnostics \in DiagArgs :
          store_diagnostics_for_anon_node(i, diagnostics)
          => LET before == store.current_diagnostics
                 after  == store'.current_diagnostics
             IN  /\ phase' = "active" /\ ~trapped'
                 /\ DOMAIN after = DOMAIN before \cup {i}
                 /\ after[i] = (IF i \in DOMAIN before THEN before[i] ELSE <<>>)
                                  \o diagnostics
                 /\ \A j \in DOMAIN before \ {i} : after[j] = before[j]]_vars

\* [a] then [b]: every call passes at most MaxDiagLen = 1 diagnostic, so the
\* list [a, b] is the work of an appending store
C5_Witness ==
    \E i \in Ids :
        /\ i \in DOMAIN store.current_diagnostics
        /\ store.current_diagnostics[i] = <<DiagA, DiagB>>
        /\ phase = "active"


\* what the specification asks of the crate remap `map` for the previous
\* crate table prev_cnums in the session t
RemapAsSpecified(map, prev_cnums, t) ==
    /\ \A k \in 1..Len(prev_cnums) :
          prev_cnums[k][1] # LOCAL_CRATE =>
              LET live == { c \in Range(t.crates) :
                              /\ t.crate_info[c].name = prev_cnums[k][2]
                              /\ t.crate_info[c].disambiguator = prev_cnums[k][3] }
              IN  /\ prev_cnums[k][1] \in DOMAIN map
                  /\ IF live = {} THEN map[prev_cnums[k][1]] = None
                     ELSE \E c \in live : map[prev_cnums[k][1]] = Some(c)
    /\ LOCAL_CRATE \in DOMAIN map
    /\ map[LOCAL_CRATE] = Some(LOCAL_CRATE)

\* C6: compute_cnum_map builds the crate remap as specified.  For every
\* entry (p, name, disambiguator) of the previous crate table, other than
\* that of the local crate, remap(p) is the current number of the live
\* crate with the same name and disambiguator if there is one and absent
\* otherwise; remap(local crate) is the local crate whatever the table
\* holds, the empty table included.  This holds for the table each worker
\* computes and for the one the store retains.
C6_CnumMapAsSpecified ==
    /\ \A t \in Threads :
          IsSome(th[t].computed) =>
              RemapAsSpecified(th[t].computed.some, store.prev_cnums, tcx)
    /\ IsSome(store.cnum_map) =>
          RemapAsSpecified(store.cnum_map.some, store.prev_cnums, tcx)

\* the example of the specification: the previous table is
\* [(1, core, D1), (2, alloc, D2)], core is now crate 7 and alloc is gone
C6_Witness ==
    /\ store.prev_cnums = <<<<1, NameCore, CoreCrate.disambiguator>>,
                            <<2, NameAlloc, AllocCrate.disambiguator>>>>
    /\ tcx = CoreIsSeven
    /\ IsSome(store.cnum_map)
    /\ store.cnum_map.some[1] = Some(7)
    /\ store.cnum_map.some[2] = None
    /\ store.cnum_map.some[LOCAL_CRATE] = Some(LOCAL_CRATE)


\* the tables the racing workers hold agree with each other and with the
\* retained one, and a worker only builds a decoder once a table is retained
RaceStateOk ==
    /\ \A t1, t2 \in Threads :
          (IsSome(th[t1].computed) /\ IsSome(th[t2].computed))
              => th[t1].computed = th[t2].computed
    /\ \A t \in Threads :
          (IsSome(th[t].computed) /\ IsSome(store.cnum_map))
              => th[t].computed = store.cnum_map
    /\ \A t \in Threads : th[t].pc = "decode" => IsSome(store.cnum_map)

\* C7: the construction of the crate remap is safe to race.  Under every
\* interleaving of concurrent first hits of load_indexed, the tables the
\* callers compute are all equal; a caller that finds the cell empty
\* retains its table and one that finds it full drops its own without
\* aborting; the retained table never changes afterwards; and every caller,
\* a losing one included, builds its decoder only when a table is retained
\* (the decoder reads cnum_map.get()).
C7_RemapRaceSafe ==
    [][/\ RaceStateOk'
       /\ IsSome(store.cnum_map) => store'.cnum_map = store.cnum_map
       /\ \A t \in Threads :
             LoadTrySet(t) =>
                 /\ phase' = "active"
                 /\ th'[t].pc = "decode"
                 /\ store'.cnum_map = (IF IsSome(store.cnum_map)
                                       THEN store.cnum_map
                                       ELSE th[t].computed)]_vars

\* a worker that lost the race still holds its own table while the winner
\* has already decoded with the retained one
C7_Witness ==
    \E t1, t2 \in Threads :
        /\ t1 # t2
        /\ th[t1].pc = "set"
        /\ IsSome(th[t1].computed)
        /\ IsSome(store.cnum_map)
        /\ th[t2].pc = "idle"
        /\ IsSome(th[t2].result)


\* the number a sequence of bytes is in little-endian order
RECURSIVE LittleEndian(_)
LittleEndian(bytes) ==
    IF bytes = <<>> THEN 0 ELSE Head(bytes) + 256 * LittleEndian(Tail(bytes))

\* C8: Footer addressing.  In the bytes serialize has written, the last 8
\* bytes are the little-endian position at which the tagged footer record
\* begins; the footer record ends where those 8 bytes begin, so nothing
\* follows them; and OnDiskCache::new, which finds the footer only through
\* those bytes, gets back the tables that serialize put into the footer.
C8_FooterAddressing ==
    phase = "serialized" =>
        LET bytes == enc.bytes
            n     == Len(bytes)
            fp    == enc.footer_pos.some
        IN  /\ n >= ENCODED_SIZE
            /\ LittleEndian(SubSeq(bytes, n - ENCODED_SIZE + 1, n)) = fp
            /\ SubSeq(bytes, fp + 1, fp + Len(TAG_FILE_FOOTER)) = TAG_FILE_FOOTER
            /\ decode_tagged_footer(bytes, fp).ok
            /\ decode_tagged_footer(bytes, fp).pos = n - ENCODED_SIZE
            /\ FooterPosOf(bytes).val = fp
            /\ ~IsAbort(new(bytes))
            /\ new(bytes).query_result_index = CollectMap(enc.query_result_index)
            /\ new(bytes).prev_diagnostics_index = CollectMap(enc.diagnostics_index)
            /\ new(bytes).prev_interpret_alloc_index = enc.interpret_alloc_index
            /\ new(bytes).prev_cnums = PrevCnumsOf(tcx)

\* a file with a header, records of results, diagnostics and allocations
\* has been written, so the footer is not at the start of the bytes
C8_Witness ==
    /\ phase = "serialized"
    /\ enc.footer_pos.some > Len(tcx.header)
    /\ enc.interpret_alloc_index # <<>>
    /\ enc.query_result_index # <<>>
    /\ enc.diagnostics_index # <<>>


\* the allocations that can be reached from the allocations S
RECURSIVE ReachSet(_, _)
ReachSet(S, allocs) ==
    LET next == S \cup UNION { Range(allocs[a].refs) : a \in S }
    IN  IF next = S THEN S ELSE ReachSet(next, allocs)

\* the allocations the values that serialize writes refer to directly
RootAllocs(t, current_diagnostics) ==
    UNION ({ Range(AllocRefsOf(v)) :
               v \in UNION { EligibleResults(t, i) : i \in Ids } }
           \cup { Range(AllocRefsOf(current_diagnostics[i])) :
                    i \in DOMAIN current_diagnostics })

\* the bytes from pos on are the references refs, written as local indices
RECURSIVE RefsAre(_, _, _, _)
RefsAre(bytes, pos, refs, inverse) ==
    IF refs = <<>> THEN TRUE
    ELSE Let(ReadLeb(bytes, pos), LAMBDA r :
            /\ r.ok
            /\ r.val + 1 \in 1..Len(inverse)
            /\ inverse[r.val + 1] = Head(refs)
            /\ RefsAre(bytes, r.pos, Tail(refs), inverse))

\* the record of the allocation alloc begins at pos
AllocRecordIs(bytes, pos, alloc, inverse) ==
    Let(ReadLeb(bytes, pos), LAMBDA kind :
        /\ kind.ok /\ kind.val = AllocKindAlloc
        /\ Let(ReadLeb(bytes, kind.pos), LAMBDA data :
              /\ data.ok /\ data.val = alloc.data
              /\ Let(ReadLeb(bytes, data.pos), LAMBDA count :
                    /\ count.ok /\ count.val = Len(alloc.refs)
                    /\ RefsAre(bytes, count.pos, alloc.refs, inverse))))

\* C10: Allocation fixed point.  When serialize returns, the footer's
\* interpret_alloc_index holds exactly one record offset for every
\* allocation that can be reached from the values written, directly or
\* through other allocations, and none for any other; the offsets are those
\* of distinct records and the k-th one is where the record of the
\* allocation with local index k begins.  A chain A -> B -> C of which only
\* A is referred to by a value yields three records.
C10_AllocFixedPoint ==
    phase = "serialized" =>
        LET reach   == ReachSet(RootAllocs(tcx, store.current_diagnostics), tcx.allocs)
            inverse == enc.interpret_allocs_inverse
            index   == enc.interpret_alloc_index
        IN  /\ Len(index) = Cardinality(reach)
            /\ Len(inverse) = Len(index)
            /\ Range(inverse) = reach
            /\ \A k \in 1..Len(index) :
                  /\ AllocRecordIs(enc.bytes, index[k], tcx.allocs[inverse[k]], inverse)
                  /\ \A j \in 1..Len(index) : j < k => index[j] < index[k]

\* the chain 0 -> 1 -> 2 with only allocation 0 in a value: three records
C10_Witness ==
    /\ phase = "serialized"
    /\ tcx.results = <<Entry(0, <<AllocItem(0)>>)>>
    /\ tcx.allocs[0].refs = <<1>>
    /\ tcx.allocs[1].refs = <<2>>
    /\ tcx.allocs[2].refs = <<>>
    /\ Len(enc.interpret_alloc_index) = 3


\* the decoder a worker is about to run decode_tagged with
DecoderOf(t) ==
    [pos |-> IndexOf(store, th[t].index)[th[t].id],
     interpret_alloc_cache |-> store.interpret_alloc_cache,
     interner |-> tcx.allocs]

\* the tag that is read is not the expected one
TagDiffers(cx, d, expected_tag) ==
    LET tag == DecodeInt(cx, d)
    IN  tag.ok /\ tag.val # expected_tag

\* tag and value can be read, and the number that follows them is not the
\* number of bytes they took
LengthDiffers(cx, d) ==
    Let(DecodeInt(cx, d), LAMBDA tag :
        /\ tag.ok
        /\ Let(DecodeValue(cx, tag.d), LAMBDA value :
              /\ value.ok
              /\ Let(DecodeInt(cx, value.d), LAMBDA len :
                    len.ok /\ len.val # value.d.pos - d.pos)))

\* C9: Corruption detection.  Whenever the tag that decode_tagged reads
\* differs from the expected tag, or the length that follows the value
\* differs from the number of bytes that tag and value took, the load
\* returns no value and aborts; so a damaged byte that makes either check
\* fail never leads to a wrong value being returned.
C9_CorruptionDetected ==
    [][\A t \in Threads :
          (/\ LoadDecode(t)
           /\ \/ TagDiffers(DecoderContext(store), DecoderOf(t), th[t].id)
              \/ LengthDiffers(DecoderContext(store), DecoderOf(t)))
          => (IsAbort(th'[t].result) /\ phase' = "aborted")]_vars

\* a load has aborted on a record whose tag reads as expected and whose
\* value can be decoded, because the length that follows is wrong
C9_Witness ==
    \E t \in Threads :
        /\ th[t].pc = "idle"
        /\ IsAbort(th[t].result)
        /\ phase = "aborted"
        /\ ~TagDiffers(DecoderContext(store), DecoderOf(t), th[t].id)
        /\ LengthDiffers(DecoderContext(store), DecoderOf(t))

\* C11: the dummy span is encoded as the single byte TAG_INVALID_SPAN, and a
\* span decoder that meets this byte returns DUMMY_SP with its cursor one
\* byte further, leaving the file cache, the expansion-context cache and
\* the hygiene data as they were.
C11_DummySpanSentinel ==
    [][/\ (/\ SerializeSpanResult
           /\ tcx.results[Len(enc.query_result_index) + 1].value = DUMMY_SP)
          => enc'.bytes = enc.bytes \o <<TAG_INVALID_SPAN>>
       /\ \A t \in Threads, i \in DOMAIN store.query_result_index :
             (/\ SpanDecodeBegin(t, i)
              /\ store.serialized_data[store.query_result_index[i] + 1]
                     = TAG_INVALID_SPAN)
             => LET d == SpanDecoder(store, tcx, store.query_result_index[i])
                    r == DecodeSpan(SpanDecoderContext(store, tcx), d)
                IN  /\ r.ok
                    /\ r.val = DUMMY_SP
                    /\ r.d = [d EXCEPT !.pos = @ + 1]
                    /\ th'[t].result = Some(DUMMY_SP)
                    /\ store' = store
                    /\ tcx' = tcx]_vars

\* a worker has decoded the dummy span that the previous session cached
C11_Witness ==
    \E t \in Threads :
        /\ prev # NoPrev
        /\ th[t].pc = "idle"
        /\ \E i \in DOMAIN prev.tcx.results :
              /\ prev.tcx.results[i].index = th[t].id
              /\ prev.tcx.results[i].value = DUMMY_SP
        /\ th[t].result = Some(DUMMY_SP)
        /\ Len(store.serialized_data) > store.query_result_index[th[t].id] + 1

\* the position of the expansion info that the span record at pos refers
\* to: the position after TAG_EXPANSION_INFO_INLINE, or the position that
\* follows TAG_EXPANSION_INFO_SHORTHAND; None for a span without one
ContextOffset(data, pos) ==
    IF data[pos + 1] = TAG_INVALID_SPAN THEN None
    ELSE LET file_lo_index == ReadLeb(data, pos + 1)
             line_lo       == ReadLeb(data, file_lo_index.pos)
             col_lo        == ReadLeb(data, line_lo.pos)
             len           == ReadLeb(data, col_lo.pos)
             expn_info_tag == data[len.pos + 1]
         IN  CASE expn_info_tag = TAG_EXPANSION_INFO_INLINE -> Some(len.pos + 1)
               [] expn_info_tag = TAG_EXPANSION_INFO_SHORTHAND ->
                     Some(ReadLeb(data, len.pos + 1).val)
               [] OTHER -> None

\* the position of the expansion info of the span that worker t decoded
DecodedOffset(t) ==
    IF /\ th[t].pc = "idle"
       /\ IsSome(th[t].result)
       /\ th[t].id \in DOMAIN store.query_result_index
    THEN ContextOffset(store.serialized_data, store.query_result_index[th[t].id])
    ELSE None

\* C12: on one store, two decoded spans whose expansion info lies at the
\* same position (inline in one, by shorthand in the other, or the same
\* record decoded twice) carry the same syntax context.
C12_SharedContextDecodesEqual ==
    \A t1, t2 \in Threads :
        (/\ IsSome(DecodedOffset(t1))
         /\ DecodedOffset(t1) = DecodedOffset(t2))
        => th[t1].result.some.ctxt = th[t2].result.some.ctxt

\* the DefId that a cached DefId or LocalDefId value stands for
DefIdOf(value) ==
    IF value.kind = "DefId" THEN value.id ELSE to_def_id(value.id)

\* C13: the encoder writes for a DefId (and for a LocalDefId, as the DefId
\* it stands for) the 16 bytes of its DefPathHash and nothing else; the
\* decoder returns the DefId that def_path_hash_to_def_id of the reading
\* session holds for that hash, and aborts when the table has no entry for
\* it.
C13_DefIdByStableHash ==
    [][/\ SerializeDefIdResult
          => LET value == tcx.results[Len(enc.query_result_index) + 1].value
                 hash  == tcx.def_path_hashes[DefIdOf(value)]
                 added == SubSeq(enc'.bytes, Len(enc.bytes) + 1, Len(enc'.bytes))
             IN  /\ SubSeq(enc'.bytes, 1, Len(enc.bytes)) = enc.bytes
                 /\ Len(added) = 2 * ENCODED_SIZE
                 /\ LittleEndian(SubSeq(added, 1, ENCODED_SIZE)) = hash[1]
                 /\ LittleEndian(SubSeq(added, ENCODED_SIZE + 1, 2 * ENCODED_SIZE))
                        = hash[2]
       /\ \A t \in Threads, i \in DOMAIN store.query_result_index :
             DefIdDecode(t, i)
             => LET value == CachedBefore(i)
                    hash  == prev.tcx.def_path_hashes[DefIdOf(value)]
                    table == tcx.def_path_hash_to_def_id.some
                IN  IF hash \in DOMAIN table
                    THEN /\ value.kind = "DefId"
                            => th'[t].result = Some(table[hash])
                         /\ (value.kind = "LocalDefId"
                                /\ table[hash].krate = LOCAL_CRATE)
                            => th'[t].result = Some(table[hash].index)
                    ELSE /\ th'[t].result = Abort
                         /\ phase' = "aborted"]_vars

\* a worker has decoded a DefId whose crate number and index both differ
\* from those it had in the session that cached it
C13_Witness ==
    \E t \in Threads :
        /\ prev # NoPrev
        /\ th[t].pc = "idle"
        /\ IsSome(th[t].result)
        /\ th[t].id \in DOMAIN store.query_result_index
        /\ CachedBefore(th[t].id).kind = "DefId"
        /\ th[t].result.some.krate # CachedBefore(th[t].id).id.krate
        /\ tcx.def_path_hash_to_def_id.some[
               prev.tcx.def_path_hashes[CachedBefore(th[t].id).id]]
             = th[t].result.some

\* serialize has returned: the encoder has written the footer
SerializeReturned == enc # NoEnc /\ IsSome(enc.footer_pos)

TrailingPointer(data) ==
    LET n == Len(data)
    IN  IF \E i \in (n - 4)..n : data[i] # 0 THEN Saturated
        ELSE LittleEndian(SubSeq(data, n - 7, n - 5))

\* the bytes of the footer tag stand at the 0-based position pos of data
FooterTagAt(data, pos) ==
    /\ pos + Len(TAG_FILE_FOOTER) <= Len(data)
    /\ SubSeq(data, pos + 1, pos + Len(TAG_FILE_FOOTER)) = TAG_FILE_FOOTER

\* the footer tables after the tag at pos can be read, and the number that
\* follows them is the number of bytes that tag and tables take
FooterLengthMatches(data, pos) ==
    Let(ReadFooter(data, pos + Len(TAG_FILE_FOOTER)), LAMBDA value :
        /\ value.ok
        /\ LET len == ReadLeb(data, value.pos)
           IN  len.ok /\ len.val = value.pos - pos)

\* the trailing pointer and the footer record it points to can be decoded
FooterDecodable(data) ==
    /\ Len(data) >= ENCODED_SIZE
    /\ TrailingPointer(data) < Len(data)
    /\ FooterTagAt(data, TrailingPointer(data))
    /\ FooterLengthMatches(data, TrailingPointer(data))

\* C15: OnDiskCache::new aborts and returns no store whenever the trailing
\* 8-byte pointer or the footer record at the pointed offset cannot be
\* decoded: the buffer is shorter than 8 bytes, the pointer lies outside the
\* buffer, or the record there does not carry the footer tag or a matching
\* length.  It never yields an empty or partial store instead: a store it
\* returns holds the whole buffer and is not the empty store.
C15_NewAbortsOnBadFooter ==
    [][OpenFile =>
          /\ ~FooterDecodable(prev.file)
                => phase' = "aborted" /\ store' = store
          /\ phase' = "active"
                => /\ FooterDecodable(prev.file)
                   /\ store'.serialized_data = prev.file
                   /\ store' # new_empty]_vars

\* new has aborted on a buffer of at least 8 bytes whose pointer lies
\* inside it and leads to a record with the footer tag and a wrong length
C15_Witness ==
    /\ phase = "aborted"
    /\ prev # NoPrev
    /\ "file" \in DOMAIN prev
    /\ Len(prev.file) >= ENCODED_SIZE
    /\ TrailingPointer(prev.file) < Len(prev.file)
    /\ FooterTagAt(prev.file, TrailingPointer(prev.file))
    /\ ~FooterLengthMatches(prev.file, TrailingPointer(prev.file))

\* the list the accumulator acc holds for the identity i
HeldFor(acc, i) == IF i \in DOMAIN acc THEN acc[i] ELSE <<>>

\* C16: no diagnostic is lost under concurrent stores.  The calls of the
\* workers interleave as whole steps, each under the lock of the
\* accumulator.  Every store_diagnostics_for_anon_node call, and every
\* store_diagnostics call on an identity that has no entry yet, leaves for
\* its identity what was held before followed by the list passed, in the
\* order passed, and leaves the list of every other identity as it was; so
\* in any interleaving the accumulator holds for each identity the lists
\* passed for it, one after the other and each in one piece.
C16_NoDiagnosticLost ==
    [][\A i \in Ids, diagnostics \in DiagArgs :
          \/ store_diagnostics_for_anon_node(i, diagnostics)
          \/ /\ store_diagnostics(i, diagnostics)
             /\ i \notin DOMAIN store.current_diagnostics
          => /\ phase' = "active"
             /\ \A j \in Ids \cup DOMAIN store.current_diagnostics
                         \cup DOMAIN store'.current_diagnostics :
                   HeldFor(store'.current_diagnostics, j)
                     = HeldFor(store.current_diagnostics, j)
                         \o (IF j = i THEN diagnostics ELSE <<>>)
             /\ DOMAIN store'.current_diagnostics
                   = DOMAIN store.current_diagnostics \cup {i}]_vars

\* the accumulator after interleaved calls on two identities: two lists
\* for one of them and a list for the other
C16_Witness ==
    /\ phase = "active"
    /\ ~trapped
    /\ DOMAIN store.current_diagnostics = {0, 1}
    /\ store.current_diagnostics[0] = <<DiagB, DiagA>>
    /\ store.current_diagnostics[1] = <<DiagA>>

\* C17: on a store created by new_empty every lookup reports a miss, also
\* after diagnostics were stored: no worker gets past the probe of the
\* index, try_load_query_result has returned None and load_diagnostics the
\* empty list for whatever identity was asked, and the two indexes of the
\* store stay empty while the accumulator fills.
C17_EmptyStoreAlwaysMisses ==
    /\ store.query_result_index = EmptyMap
    /\ store.prev_diagnostics_index = EmptyMap
    /\ \A t \in Threads :
          /\ th[t].pc = "idle"
          /\ th[t].result \in {NotLoaded, None}
          /\ th[t].result # NotLoaded
                => load_diagnostics(th[t].result) = <<>>

\* load_diagnostics has returned for an identity whose diagnostics this
\* session has stored
C17_Witness ==
    \E t \in Threads :
        /\ th[t].result = None
        /\ th[t].index = Diagnostics
        /\ th[t].id \in DOMAIN store.current_diagnostics
        /\ store.current_diagnostics[th[t].id] # <<>>
        /\ phase = "active"

\* the lazy decode caches of a store
DecodeCaches(st) ==
    <<st.file_index_to_file, st.synthetic_expansion_infos,
      st.interpret_alloc_cache>>

\* C18: every lazy decode cache only grows.  While a process works on one
\* store instance, a key that has an entry in the file cache, in the
\* expansion-context cache or in the allocation cache keeps this entry with
\* the same value through every step.
C18_CachesOnlyGrow ==
    [][phase = "active" /\ phase' = "active" /\ prev' = prev
          => \A c \in 1..Len(DecodeCaches(store)) :
                \A k \in DOMAIN DecodeCaches(store)[c] :
                    /\ k \in DOMAIN DecodeCaches(store')[c]
                    /\ DecodeCaches(store')[c][k] = DecodeCaches(store)[c][k]]_vars

\* C19: insert-if-absent in the expansion-context cache and in the file
\* cache.  A worker that comes back from computing the context of a
\* shorthand position and finds an entry for the position leaves the entry
\* as it is and returns a span with the context of the entry; and no step
\* of a decoder replaces an entry of the file cache.
C19_InsertIfAbsent ==
    [][\A t \in Threads :
          /\ SpanDecodeFinish(t)
          /\ phase' = "active"
          /\ th[t].computed.some.pos \in DOMAIN store.synthetic_expansion_infos
          => LET pos   == th[t].computed.some.pos
                 entry == store.synthetic_expansion_infos[pos]
             IN  /\ store'.synthetic_expansion_infos[pos] = entry
                 /\ th'[t].result.some.ctxt = entry
                 /\ \A k \in DOMAIN store.file_index_to_file :
                       store'.file_index_to_file[k] = store.file_index_to_file[k]]_vars

\* the decoder of the current store in front of an allocation reference
\* with the index idx, which is put after the bytes of the store
AllocRefContext(idx) ==
    [DecoderContext(store) EXCEPT !.data = @ \o Leb(idx)]

AllocRefDecoder ==
    [pos |-> Len(store.serialized_data),
     interpret_alloc_cache |-> store.interpret_alloc_cache,
     interner |-> tcx.allocs]

\* what a decode of the reference idx does: with idx cached, the cached id
\* and nothing but the cursor moved; with idx not cached, an id that was not
\* in use, entered for idx next to the entries that were there, for an
\* allocation read at prev_interpret_alloc_index[idx], and the cursor back
\* behind the reference
AllocRefDecodedOnce(idx) ==
    Let(AllocRefDecoder, LAMBDA d :
    Let(DecodeAllocRef(AllocRefContext(idx), d), LAMBDA r :
        IF idx \in DOMAIN d.interpret_alloc_cache
        THEN /\ r.ok
             /\ r.val = d.interpret_alloc_cache[idx]
             /\ r.d = [d EXCEPT !.pos = d.pos + Len(Leb(idx))]
        ELSE r.ok =>
             /\ r.val \notin DOMAIN d.interner
             /\ idx \in DOMAIN r.d.interpret_alloc_cache
             /\ r.d.interpret_alloc_cache[idx] = r.val
             /\ \A k \in DOMAIN d.interpret_alloc_cache :
                   /\ k \in DOMAIN r.d.interpret_alloc_cache
                   /\ r.d.interpret_alloc_cache[k] = d.interpret_alloc_cache[k]
             /\ r.d.interner[r.val].data
                   = ReadLeb(store.serialized_data,
                             store.prev_interpret_alloc_index[idx + 1] + 1).val
             /\ r.d.pos = d.pos + Len(Leb(idx))))

ExpnTagPos(data, pos) ==
    LET file_lo_index == ReadLeb(data, pos + 1)
        line_lo       == ReadLeb(data, file_lo_index.pos)
        col_lo        == ReadLeb(data, line_lo.pos)
        len           == ReadLeb(data, col_lo.pos)
    IN  len.pos

\* C21: shorthand encoding of expansion contexts.  When the encoder writes
\* a valid span whose context has a mark with expansion info, a mark that
\* is not yet in expn_info_shorthands gets TAG_EXPANSION_INFO_INLINE and is
\* entered with the position that follows the tag, also when an earlier
\* mark has equal info; a mark that is in the table gets
\* TAG_EXPANSION_INFO_SHORTHAND and the position of its entry, and nothing
\* else.  No entry of the table ever changes, and every entry is the
\* position after a TAG_EXPANSION_INFO_INLINE, so each mark is written
\* inline once, at its first occurrence.
C21_ShorthandByMark ==
    /\ [](enc # NoEnc /\ prev = NoPrev =>
            \A m \in DOMAIN enc.expn_info_shorthands :
                /\ IsSome(expn_info_of(tcx.hygiene, m))
                /\ enc.bytes[enc.expn_info_shorthands[m]] = TAG_EXPANSION_INFO_INLINE
                /\ \A m2 \in DOMAIN enc.expn_info_shorthands :
                      m2 # m => enc.expn_info_shorthands[m2] # enc.expn_info_shorthands[m])
    /\ [][SerializeSpanResult =>
            LET span  == tcx.results[Len(enc.query_result_index) + 1].value
                pos   == Len(enc.bytes)
                mark  == outer(tcx.hygiene, span.ctxt)
                tag   == ExpnTagPos(enc'.bytes, pos)
                table == enc.expn_info_shorthands
            IN  /\ \A m \in DOMAIN table :
                      /\ m \in DOMAIN enc'.expn_info_shorthands
                      /\ enc'.expn_info_shorthands[m] = table[m]
                /\ (/\ enc'.bytes[pos + 1] = TAG_VALID_SPAN
                    /\ span.ctxt # EmptyContext
                    /\ IsSome(expn_info_of(tcx.hygiene, mark)))
                   => IF mark \in DOMAIN table
                      THEN /\ SubSeq(enc'.bytes, tag + 1, Len(enc'.bytes))
                                = <<TAG_EXPANSION_INFO_SHORTHAND>> \o Leb(table[mark])
                           /\ enc'.expn_info_shorthands = table
                      ELSE /\ enc'.bytes[tag + 1] = TAG_EXPANSION_INFO_INLINE
                           /\ enc'.expn_info_shorthands[mark] = tag + 1
                           /\ Len(enc'.bytes) > tag + 1]_vars

\* the encoder has written two spans whose marks have equal expansion
\* info, and each mark inline at its own position
C21_Witness ==
    /\ enc # NoEnc
    /\ prev = NoPrev
    /\ Len(enc.query_result_index) = 2
    /\ \E m1, m2 \in DOMAIN enc.expn_info_shorthands :
          /\ m1 # m2
          /\ expn_info_of(tcx.hygiene, m1) = expn_info_of(tcx.hygiene, m2)
          /\ enc.expn_info_shorthands[m1] # enc.expn_info_shorthands[m2]
          /\ enc.expn_info_shorthands[m2]
                = ExpnTagPos(enc.bytes, enc.query_result_index[2][2]) + 1

\* C22: the allocation loop of serialize terminates, also when the
\* allocations refer to each other in cycles or to themselves: a serialize
\* that has begun returns.  Every pass that does not break writes at least
\* one more allocation and never more than the session has; and the loop
\* is left only when the number of allocations discovered equals the number
\* written, each with its entry in the allocation index.
C22_AllocLoopTerminates ==
    /\ (phase = "serializing") ~> (phase = "serialized")
    /\ [][SerializeAllocPass =>
             /\ enc'.n > enc.n
             /\ enc'.n = Len(enc.interpret_allocs_inverse)
             /\ Len(enc'.interpret_allocs_inverse) <= Cardinality(DOMAIN tcx.allocs)]_vars
    /\ [][SerializeFinish =>
             /\ enc.n = Len(enc.interpret_allocs_inverse)
             /\ Len(enc.interpret_alloc_index) = Len(enc.interpret_allocs_inverse)
             /\ enc'.interpret_alloc_index = enc.interpret_alloc_index]_vars

\* serialize has returned in a session whose allocations form a ring, after
\* it has written every one of them
C22_Witness ==
    /\ phase = "serialized"
    /\ \A a \in AllocIds : tcx.allocs[a].refs = <<(a + 1) % NumAllocs>>
    /\ Len(enc.interpret_alloc_index) = NumAllocs

\* the items written from pos on are those of value, and each reference to
\* an allocation among them is written as the local index that the table
\* `table` holds for the allocation
RECURSIVE ItemsRefer(_, _, _, _)
ItemsRefer(bytes, pos, value, table) ==
    IF value = <<>> THEN TRUE
    ELSE LET variant == ReadLeb(bytes, pos)
             payload == ReadLeb(bytes, variant.pos)
         IN  /\ variant.ok /\ payload.ok
             /\ variant.val = VariantIdx(Head(value).k)
             /\ Head(value).k = "Alloc"
                   => /\ Head(value).v \in DOMAIN table
                      /\ payload.val = table[Head(value).v]
             /\ ItemsRefer(bytes, payload.pos, Tail(value), table)

\* C23: allocation local indices are dense and stable within one encode
\* pass.  At every point of serialize the k-th allocation met has the local
\* index k - 1, interpret_allocs and interpret_allocs_inverse are inverses
\* of each other, every reference written so far, in a cached value or in
\* the record of an allocation, is the local index of the allocation it
\* refers to, and entry k of the allocation index is the position of the
\* record of the allocation with local index k.  No step changes the index
\* of an allocation that has one.
C23_AllocIndicesDense ==
    /\ [](enc # NoEnc =>
            LET table   == enc.interpret_allocs
                inverse == enc.interpret_allocs_inverse
                index   == enc.interpret_alloc_index
            IN  /\ DOMAIN table = Range(inverse)
                /\ \A k \in 1..Len(inverse) : table[inverse[k]] = k - 1
                /\ Len(index) = enc.n
                /\ enc.n <= Len(inverse)
                /\ \A k \in 1..Len(index) :
                      AllocRecordIs(enc.bytes, index[k], tcx.allocs[inverse[k]],
                                    inverse)
                /\ \A j \in 1..Len(enc.query_result_index) :
                      LET tag   == ReadLeb(enc.bytes, enc.query_result_index[j][2])
                          count == ReadLeb(enc.bytes, tag.pos)
                      IN  /\ count.val = Len(tcx.results[j].value)
                          /\ ItemsRefer(enc.bytes, count.pos,
                                        tcx.results[j].value, table))
    /\ [][enc # NoEnc /\ enc' # NoEnc =>
             /\ \A a \in DOMAIN enc.interpret_allocs :
                   /\ a \in DOMAIN enc'.interpret_allocs
                   /\ enc'.interpret_allocs[a] = enc.interpret_allocs[a]
             /\ \A k \in 1..Len(enc.interpret_alloc_index) :
                   enc'.interpret_alloc_index[k] = enc.interpret_alloc_index[k]]_vars

\* serialize has returned after it wrote a value that refers to allocation
\* 1 before allocation 0, in a session where every allocation refers to
\* allocation 0: allocation 1 has the local index 0, allocation 0 the local
\* index 1, and the references to allocation 0 met later were written as 1
C23_Witness ==
    /\ phase = "serialized"
    /\ tcx.results[1].value = <<AllocItem(1), AllocItem(0)>>
    /\ \A a \in AllocIds : tcx.allocs[a].refs = <<0>>
    /\ enc.interpret_allocs_inverse = <<1, 0>>
    /\ enc.interpret_allocs[0] = 1
    /\ Len(enc.interpret_alloc_index) = 2

\* the position after `count` items that start at pos
RECURSIVE ItemsEnd(_, _, _)
ItemsEnd(bytes, pos, count) ==
    IF count = 0 THEN pos
    ELSE ItemsEnd(bytes,
                  LebExtent(bytes, LebExtent(bytes, pos)),
                  count - 1)

\* the number of bytes that the items of value take, a reference to an
\* allocation taking the bytes of its local index
RECURSIVE ItemsWidth(_, _)
ItemsWidth(value, table) ==
    IF value = <<>> THEN 0
    ELSE Len(Leb(VariantIdx(Head(value).k)))
         + Len(Leb(IF Head(value).k = "Alloc" THEN table[Head(value).v]
                   ELSE Head(value).v))
         + ItemsWidth(Tail(value), table)

\* the record that starts at start has the tag `tag`, holds as many items as
\* value, and ends with the number of bytes of its tag and its items
TaggedRecordAt(bytes, start, tag, value, table) ==
    LET actual_tag == ReadLeb(bytes, start)
        count      == ReadLeb(bytes, actual_tag.pos)
        end_pos    == ItemsEnd(bytes, count.pos, Len(value))
        len        == ReadLeb(bytes, end_pos)
    IN  /\ actual_tag.ok /\ actual_tag.val = tag
        /\ count.ok /\ count.val = Len(value)
        /\ len.ok
        /\ len.val = end_pos - start
        /\ len.val = Len(Leb(tag)) + Len(Leb(Len(value)))
                        + ItemsWidth(value, table)

\* C24: every record written by encode_tagged ends with a length field
\* equal to the number of bytes of its tag and its value, the length field
\* itself not counted, also when the value holds references to allocations
\* (which enter allocations into the encoder's tables while the value is
\* written).  This holds of the records of cached results, of the records
\* of diagnostics and of the footer.
C24_TaggedLength ==
    enc # NoEnc =>
        /\ \A j \in 1..Len(enc.query_result_index) :
              TaggedRecordAt(enc.bytes, enc.query_result_index[j][2],
                             enc.query_result_index[j][1],
                             tcx.results[j].value, enc.interpret_allocs)
        /\ \A j \in 1..Len(enc.diagnostics_index) :
              TaggedRecordAt(enc.bytes, enc.diagnostics_index[j][2],
                             enc.diagnostics_index[j][1],
                             store.current_diagnostics[enc.diagnostics_index[j][1]],
                             enc.interpret_allocs)
        /\ IsSome(enc.footer_pos) =>
              /\ FooterTagAt(enc.bytes, enc.footer_pos.some)
              /\ FooterLengthMatches(enc.bytes, enc.footer_pos.some)

\* serialize has returned; the record of the cached result holds an integer
\* of two bytes and a reference that entered an allocation into the tables,
\* and ends with the length 7; the record of the diagnostics follows it
C24_Witness ==
    /\ phase = "serialized"
    /\ tcx.results[1].value = <<IntItem(300), AllocItem(1)>>
    /\ enc.interpret_allocs_inverse[1] = 1
    /\ Len(enc.interpret_alloc_index) = NumAllocs
    /\ Len(enc.diagnostics_index) = 1
    /\ LET start == enc.query_result_index[1][2]
       IN  /\ enc.bytes[start + 8] = 7
           /\ enc.diagnostics_index[1][2] = start + 8

\* a decode of the reference idx, which is not cached, by a decoder that
\* stands behind the serialized data: whatever the decode at the position of
\* the record returned, the cursor is behind the reference; a decode that
\* succeeded read the contents and as many relocations as the record at
\* prev_interpret_alloc_index[idx] holds
AllocRefRestores(idx) ==
    Let(AllocRefDecoder, LAMBDA d :
    Let(DecodeAllocRef(AllocRefContext(idx), d), LAMBDA r :
        /\ r.d.pos = d.pos + Len(Leb(idx))
        /\ r.ok /\ idx \notin DOMAIN d.interpret_alloc_cache =>
              LET pos   == store.prev_interpret_alloc_index[idx + 1]
                  kind  == ReadLeb(store.serialized_data, pos)
                  data  == ReadLeb(store.serialized_data, kind.pos)
                  count == ReadLeb(store.serialized_data, data.pos)
              IN  /\ r.d.interner[r.val].data = data.val
                  /\ Len(r.d.interner[r.val].refs) = count.val))

\* the decode of the reference idx fails inside the record of another
\* allocation: its own record begins with the kind of an allocation
FailsNested(idx) ==
    /\ idx \notin DOMAIN store.interpret_alloc_cache
    /\ ~DecodeAllocRef(AllocRefContext(idx), AllocRefDecoder).ok
    /\ LET pos   == store.prev_interpret_alloc_index[idx + 1]
           kind  == ReadLeb(store.serialized_data, pos)
           data  == ReadLeb(store.serialized_data, kind.pos)
           count == ReadLeb(store.serialized_data, data.pos)
           ref   == ReadLeb(store.serialized_data, count.pos)
       IN  /\ kind.ok /\ kind.val = AllocKindAlloc
           /\ data.ok
           /\ count.ok /\ count.val = 1
           /\ ref.ok /\ ref.val # idx
           /\ ref.val < Len(store.prev_interpret_alloc_index)

\* C25: with_position(pos, f) runs f with the cursor at pos and leaves the
\* cursor of the decoder where it was before the call when f returns, with
\* a success or with an error, also when f calls with_position again.  For
\* every reference to an allocation, which is resolved under
\* with_position: after the decode the decoder stands behind the reference,
\* and a decode that succeeded has read the record at the position of the
\* allocation index.
C25_WithPositionRestores ==
    phase = "active" /\ IsSome(store.cnum_map) =>
        \A idx \in 0..(Len(store.prev_interpret_alloc_index) - 1) :
            AllocRefRestores(idx)

\* a store over a file in which the record of one allocation of a cycle is
\* damaged: the decode of the reference to the other allocation runs into
\* the damage one call deeper and returns an error
C25_Witness ==
    /\ phase = "active"
    /\ IsSome(store.cnum_map)
    /\ \E idx \in 0..(Len(store.prev_interpret_alloc_index) - 1) :
          /\ FailsNested(idx)
          /\ AllocRefRestores(idx)

\* the lookup that worker t is in, or was in last, found its identity in
\* the index
LookupHit(t) == th[t].id \in DOMAIN IndexOf(store, th[t].index)

\* C26: the crate remap table is built lazily.  The store that new or
\* new_empty returns has none; a lookup that misses leaves the store as it
\* is; the table changes only once, from absent to the table computed for
\* this session, in the set step of a lookup that hit; no worker is at the
\* decode of a record, and no lookup has returned a value, while the table
\* is absent; and every lookup that hit leaves its set step with the table
\* present.
C26_CnumMapLazy ==
    /\ [][phase = "starting" => store'.cnum_map = None]_vars
    /\ [][\A t \in Threads :
             th[t].pc = "idle" /\ th'[t] # th[t] /\ th'[t].pc = "idle"
                => /\ th'[t].result = None
                   /\ store' = store]_vars
    /\ [][store'.cnum_map # store.cnum_map /\ phase = "active" =>
             /\ store.cnum_map = None
             /\ store'.cnum_map = Some(compute_cnum_map(tcx, store.prev_cnums))
             /\ \E t \in Threads :
                   /\ th[t].pc = "set" /\ LookupHit(t)
                   /\ th'[t].pc = "decode"]_vars
    /\ [][\A t \in Threads :
             th[t].pc = "set" /\ th'[t].pc # "set"
                => IsSome(store'.cnum_map)]_vars
    /\ [](\A t \in Threads :
             /\ th[t].pc = "decode" => IsSome(store.cnum_map) /\ LookupHit(t)
             /\ th[t].result \notin {None, NotLoaded} => IsSome(store.cnum_map))

\* after new: one worker missed while the table was absent, another hit
\* and built it, and has its value
C26_Witness ==
    /\ phase = "active"
    /\ store.serialized_data # <<>>
    /\ store.cnum_map = Some(compute_cnum_map(tcx, store.prev_cnums))
    /\ \E t, u \in Threads :
          /\ th[t].pc = "idle" /\ LookupHit(t) /\ IsSome(th[t].result)
          /\ th[u].pc = "idle" /\ ~LookupHit(u) /\ th[u].result = None

\* the value that serialize is about to write
NextCached == tcx.results[Len(enc.query_result_index) + 1].value

\* C27: a bare DefIndex never passes through the cache codec.  The encoder
\* aborts on a DefIndex and writes no byte of it; the decoder aborts when
\* it is asked for a DefIndex, whatever the record holds; no file that a
\* process opens holds a DefIndex; the owner of a HirId is written as the
\* 16 bytes of its DefPathHash, followed by the local id, and is read back
\* as the index that def_path_hash_to_def_id of the reading session holds
\* for that hash.
C27_BareDefIndexAborts ==
    /\ [][/\ SerializeIndexResult /\ NextCached.kind = "DefIndex"
             => phase' = "aborted" /\ enc' = enc
          /\ SerializeIndexResult /\ NextCached.kind = "HirId"
             => LET hash  == tcx.def_path_hashes[to_def_id(NextCached.id.owner)]
                    added == SubSeq(enc'.bytes, Len(enc.bytes) + 1, Len(enc'.bytes))
                IN  /\ phase' = "serializing"
                    /\ SubSeq(enc'.bytes, 1, Len(enc.bytes)) = enc.bytes
                    /\ LittleEndian(SubSeq(added, 1, ENCODED_SIZE)) = hash[1]
                    /\ LittleEndian(SubSeq(added, ENCODED_SIZE + 1, 2 * ENCODED_SIZE))
                           = hash[2]
                    /\ SubSeq(added, 2 * ENCODED_SIZE + 1, Len(added))
                           = Leb(NextCached.id.local_id)
          /\ \A t \in Threads, i \in DOMAIN store.query_result_index :
                /\ DecodeBareIndex(t, i)
                   => th'[t].result = Abort /\ phase' = "aborted"
                /\ IndexDecode(t, i) /\ CachedBefore(i).kind = "HirId"
                   => LET id    == CachedBefore(i).id
                          hash  == prev.tcx.def_path_hashes[to_def_id(id.owner)]
                          table == tcx.def_path_hash_to_def_id.some
                      IN  IF /\ hash \in DOMAIN table
                             /\ ~debug_assertions \/ table[hash].krate = LOCAL_CRATE
                          THEN th'[t].result
                                  = Some(HirId(table[hash].index, id.local_id))
                          ELSE /\ th'[t].result = Abort
                               /\ phase' = "aborted"]_vars
    /\ [](prev # NoPrev =>
            \A i \in DOMAIN prev.tcx.results :
                prev.tcx.results[i].value.kind # "DefIndex")

\* serialize has written a HirId and has aborted at the DefIndex that the
\* session cached next
C27_Witness ==
    /\ phase = "aborted"
    /\ enc # NoEnc
    /\ Len(enc.query_result_index) = 1
    /\ tcx.results[1].value.kind = "HirId"
    /\ NextCached.kind = "DefIndex"
    /\ Len(enc.bytes) = Len(tcx.header) + 2 * ENCODED_SIZE + 1

\* the places <<file, line>> of the codemap at which the position pos lies:
\* the file covers pos and the line is the last one that starts at or
\* before pos
PlacesOf(codemap, pos) ==
    UNION { { <<f, l>> : l \in { l \in 1..Len(codemap[f].lines) :
                                    /\ codemap[f].lines[l] <= pos
                                    /\ l < Len(codemap[f].lines)
                                          => pos < codemap[f].lines[l + 1] } } :
            f \in { f \in 1..Len(codemap) :
                       /\ codemap[f].start_pos <= pos
                       /\ pos < codemap[f].end_pos } }

\* lo <= hi, lo lies in a file and hi lies in the same file
InOneFile(codemap, span) ==
    /\ span.lo <= span.hi
    /\ \E p \in PlacesOf(codemap, span.lo) :
          /\ codemap[p[1]].start_pos <= span.hi
          /\ span.hi <= codemap[p[1]].end_pos

\* tag, file index, 1-based line, column and length of a span in one file
ValidSpanBytes(codemap, span) ==
    LET p == CHOOSE p \in PlacesOf(codemap, span.lo) : TRUE
    IN  <<TAG_VALID_SPAN>> \o Leb(p[1] - 1) \o Leb(p[2])
            \o Leb(span.lo - codemap[p[1]].lines[p[2]])
            \o Leb(span.hi - span.lo)

\* the bytes that the step of serialize has added
AddedBytes == SubSeq(enc'.bytes, Len(enc.bytes) + 1, Len(enc'.bytes))

\* the step of serialize has written a record that starts with bytes
WritesFirst(bytes) ==
    /\ Len(AddedBytes) > Len(bytes)
    /\ SubSeq(AddedBytes, 1, Len(bytes)) = bytes

\* the file in which the span cached before lies has, in this session, the
\* line table it had in the session before
SameLineTable(span) ==
    \E p \in PlacesOf(prev.tcx.codemap, span.lo) :
        \E f \in 1..Len(tcx.codemap) :
            /\ tcx.codemap[f].stable_id = prev.tcx.codemap[p[1]].stable_id
            /\ tcx.codemap[f].lines = prev.tcx.codemap[p[1]].lines

\* the codemap of the session that wrote, or writes, the spans
WrittenCodemap == IF prev = NoPrev THEN tcx.codemap ELSE prev.tcx.codemap

\* lo <= hi, lo lies in a file of the writing session and hi in the same
SpanInOneFile(span) == InOneFile(WrittenCodemap, span)

\* the step of serialize has written the span it had to write next as a
\* valid span if `valid` holds and as the sentinel if not
WrittenBy(valid) ==
    IF valid
    THEN WritesFirst(ValidSpanBytes(tcx.codemap, NextCached))
    ELSE AddedBytes = <<TAG_INVALID_SPAN>>

\* the first half of the decoder, run on the record of dep_node_index,
\* returns the lo and the hi of the span cached before
HeadReadBack(dep_node_index) ==
    LET head == DecodeSpanHead(
                    SpanDecoderContext(store, tcx),
                    SpanDecoder(store, tcx,
                                store.query_result_index[dep_node_index]))
    IN  /\ head.ok
        /\ ~head.val.dummy
        /\ head.val.lo = CachedBefore(dep_node_index).lo
        /\ head.val.hi = CachedBefore(dep_node_index).hi

\* worker t has read a span back, whole or as far as lo and hi
HasRead(t) ==
    /\ prev # NoPrev
    /\ th[t].id \in DOMAIN store.query_result_index
    /\ th[t].pc \in {"idle", "miss"}
    /\ IsSome(th[t].result) \/ IsSome(th[t].computed)

\* what worker t has read back is, if `valid` holds and the file has the
\* same line table, a span with the lo and the hi of the span cached
\* before, and if `valid` does not hold, the dummy span
ReadBack(t, valid) ==
    LET orig == CachedBefore(th[t].id)
        got  == IF IsSome(th[t].result) THEN th[t].result.some
                ELSE th[t].computed.some
    IN  IF valid
        THEN SameLineTable(orig) => got.lo = orig.lo /\ got.hi = orig.hi
        ELSE th[t].result = Some(DUMMY_SP)

\* The statement that every span with lo <= hi whose lo lies in a file and
\* whose hi lies in the same file is written as the valid tag, the file
\* index, the 1-based line, the column and hi - lo, and is read back with
\* its lo and hi where the file has the same line table, every other span
\* being written as the sentinel.
C28_EverySpanInOneFile ==
    /\ [][SerializeSpanResult => WrittenBy(SpanInOneFile(NextCached))]_vars
    /\ [][\A t \in Threads, i \in DOMAIN store.query_result_index :
             /\ SpanDecodeBegin(t, i)
             /\ SpanInOneFile(CachedBefore(i))
             /\ SameLineTable(CachedBefore(i))
             => HeadReadBack(i)]_vars
    /\ [](\A t \in Threads :
             HasRead(t)
                => ReadBack(t, SpanInOneFile(CachedBefore(th[t].id))))

\* C28: valid-span round trip.  Every span other than the dummy span with
\* lo <= hi whose lo lies in a file and whose hi lies in the same file is
\* written as the valid tag, the file index, the 1-based line, the column
\* and hi - lo; where the file has the same line table in the decoding
\* session, the decoder returns lo = lines[line - 1] + column and
\* hi = lo + length equal to the lo and hi written.  The dummy span and
\* every span that fails one of the conditions is written as the sentinel.
C28_ValidSpanRoundTrip ==
    /\ [][SerializeSpanResult =>
             WrittenBy(NextCached # DUMMY_SP /\ SpanInOneFile(NextCached))]_vars
    /\ [][\A t \in Threads, i \in DOMAIN store.query_result_index :
             /\ SpanDecodeBegin(t, i)
             /\ CachedBefore(i) # DUMMY_SP
             /\ SpanInOneFile(CachedBefore(i))
             /\ SameLineTable(CachedBefore(i))
             => HeadReadBack(i)]_vars
    /\ [](\A t \in Threads :
             HasRead(t)
                => ReadBack(t, /\ CachedBefore(th[t].id) # DUMMY_SP
                               /\ SpanInOneFile(CachedBefore(th[t].id))))

\* a worker of a session that has the files where the writer had them has
\* read back the span from 16 to 19, which was written as line 2, column 1
\* and length 3 of the file with index 1
C28_Witness ==
    /\ prev # NoPrev
    /\ tcx.codemap = SameCodemap
    /\ \E t \in Threads :
          /\ th[t].pc = "idle"
          /\ th[t].id \in DOMAIN store.query_result_index
          /\ CachedBefore(th[t].id) = Span(16, 19, 0)
          /\ th[t].result = Some(Span(16, 19, 0))
          /\ SubSeq(store.serialized_data,
                    store.query_result_index[th[t].id] + 1,
                    store.query_result_index[th[t].id] + 5)
                = <<TAG_VALID_SPAN, 1, 2, 1, 3>>

\* the crate table of the footer that serialize has written, as read from
\* the bytes
WrittenCrateTable ==
    ReadFooter(enc.bytes, enc.footer_pos.some + Len(TAG_FILE_FOOTER))

\* C29: the crate table that serialize writes into the footer is sorted by
\* crate number, holds no crate number twice and holds the local crate,
\* whatever list of crates the session reports.  It holds the crates of the
\* list and no other, each with its name and disambiguator.
C29_CrateTableSorted ==
    SerializeReturned =>
        /\ WrittenCrateTable.ok
        /\ LET table == WrittenCrateTable.val.prev_cnums
           IN  /\ \A i, j \in 1..Len(table) : i < j => table[i][1] < table[j][1]
               /\ \E i \in 1..Len(table) : table[i][1] = LOCAL_CRATE
               /\ { table[i][1] : i \in 1..Len(table) }
                     = Range(tcx.crates) \cup {LOCAL_CRATE}
               /\ \A i \in 1..Len(table) :
                     /\ table[i][2] = tcx.crate_info[table[i][1]].name
                     /\ table[i][3] = tcx.crate_info[table[i][1]].disambiguator

\* serialize has returned in a session that reports crate 2 twice and the
\* local crate between: the table holds the local crate and crate 2
C29_Witness ==
    /\ SerializeReturned
    /\ tcx.crates = <<2, 0, 2>>
    /\ Len(WrittenCrateTable.val.prev_cnums) = 2
    /\ WrittenCrateTable.val.prev_cnums[1][1] = LOCAL_CRATE
    /\ WrittenCrateTable.val.prev_cnums[2][1] = 2

\* the keys of a list of index entries are pairwise different
KeysUnique(entries) ==
    \A i, j \in 1..Len(entries) : entries[i][1] = entries[j][1] => i = j

\* the map holds exactly the entries of the list
HoldsAll(map, entries) ==
    /\ Cardinality(DOMAIN map) = Len(entries)
    /\ \A i \in 1..Len(entries) :
          /\ entries[i][1] \in DOMAIN map
          /\ map[entries[i][1]] = entries[i][2]

\* the footer of the stream bytes, which holds its position in footer_pos
FooterOf(e) == ReadFooter(e.bytes, e.footer_pos.some + Len(TAG_FILE_FOOTER))

\* C30: index keys are unique per identity.  In the footer of the stream
\* that serialize has produced, read back from the bytes, no identity is
\* the key of two entries of the diagnostics index and none the key of two
\* entries of the result index; and the maps that new has built from the
\* stream hold every entry of the two lists.
C30_IndexKeysUnique ==
    /\ SerializeReturned =>
          Let(FooterOf(enc), LAMBDA footer :
              /\ footer.ok
              /\ KeysUnique(footer.val.query_result_index)
              /\ KeysUnique(footer.val.diagnostics_index))
    /\ prev # NoPrev /\ phase = "active" =>
          Let(FooterOf(prev.enc), LAMBDA footer :
              /\ footer.ok
              /\ HoldsAll(store.query_result_index,
                          footer.val.query_result_index)
              /\ HoldsAll(store.prev_diagnostics_index,
                          footer.val.diagnostics_index))

\* a store opened on a stream with the results of two identities, one of
\* them a constant evaluation, and the diagnostics of two identities
C30_Witness ==
    /\ prev # NoPrev
    /\ phase = "active"
    /\ Len(prev.enc.query_result_index) = 2
    /\ \E i \in 1..Len(prev.tcx.results) : IsConstEval(prev.tcx.results[i])
    /\ Len(prev.enc.diagnostics_index) = 2
    /\ Cardinality(DOMAIN store.query_result_index) = 2
    /\ Cardinality(DOMAIN store.prev_diagnostics_index) = 2

\* cache_on_disk(key) holds and, for const_eval, the evaluation succeeded
Eligible(entry) ==
    entry.cache_on_disk /\ (IsConstEval(entry) => entry.ok)

\* the cache entries of session t that are eligible for the disk
EligibleEntries(t) ==
    { t.results[j] : j \in { j \in 1..Len(t.results) : Eligible(t.results[j]) } }

\* the position behind the tagged record that starts at start, read from
\* the bytes
RecordEnd(bytes, start) ==
    LET tag     == ReadLeb(bytes, start)
        count   == ReadLeb(bytes, tag.pos)
        end_pos == ItemsEnd(bytes, count.pos, count.val)
    IN  ReadLeb(bytes, end_pos).pos

\* where the part of the stream that holds the cached results ends: at the
\* first thing serialize has written behind it, or at the end of the bytes
ResultsEnd(e) ==
    IF e.diagnostics_index # <<>> THEN e.diagnostics_index[1][2]
    ELSE IF e.interpret_alloc_index # <<>> THEN e.interpret_alloc_index[1]
    ELSE IF IsSome(e.footer_pos) THEN e.footer_pos.some
    ELSE Len(e.bytes)

\* the index has one entry per eligible cache entry of t and none else, each
\* at a record of that entry's value; the records lie one behind the other
\* from the end of the header to the end of the results part, so that the
\* stream holds no other record of a result
OnlyEligibleWritten(e, t) ==
    /\ { e.query_result_index[j][1] : j \in 1..Len(e.query_result_index) }
          = { entry.index : entry \in EligibleEntries(t) }
    /\ Len(e.query_result_index) = Cardinality(EligibleEntries(t))
    /\ \A j \in 1..Len(e.query_result_index) :
          /\ \E entry \in EligibleEntries(t) :
                /\ entry.index = e.query_result_index[j][1]
                /\ TaggedRecordAt(e.bytes, e.query_result_index[j][2],
                                  entry.index, entry.value, e.interpret_allocs)
          /\ e.query_result_index[j][2] =
                IF j = 1 THEN Len(t.header)
                ELSE RecordEnd(e.bytes, e.query_result_index[j - 1][2])
    /\ ResultsEnd(e) =
          IF e.query_result_index = <<>> THEN Len(t.header)
          ELSE RecordEnd(e.bytes,
                         e.query_result_index[Len(e.query_result_index)][2])

\* C31: only eligible results are persisted.  In every state of serialize
\* and after it, the stream holds a record and an index entry for a cache
\* entry exactly if cache_on_disk holds of it and, for const_eval, the
\* evaluation succeeded; the process that opens the stream has exactly the
\* identities of those entries in its result index, and its
\* try_load_query_result answers None exactly for the identities that have
\* no eligible entry.
C31_OnlyEligiblePersisted ==
    /\ enc # NoEnc => OnlyEligibleWritten(enc, tcx)
    /\ prev # NoPrev =>
          /\ DOMAIN store.query_result_index
                = { entry.index : entry \in EligibleEntries(prev.tcx) }
          /\ \A t \in Threads :
                Returned(t, QueryResults) =>
                    /\ th[t].result = None
                          <=> \A entry \in EligibleEntries(prev.tcx) :
                                  entry.index # th[t].id
                    /\ th[t].result # None => IsSome(th[t].result)

\* the writing session had a failed constant evaluation under identity 0
\* and a cached result under identity 1; the next process has looked
\* identity 0 up and got None, and holds identity 1 in its index
C31_Witness ==
    /\ prev # NoPrev
    /\ \E j \in 1..Len(prev.tcx.results) :
          /\ prev.tcx.results[j].index = 0
          /\ IsConstEval(prev.tcx.results[j])
          /\ prev.tcx.results[j].cache_on_disk
          /\ ~prev.tcx.results[j].ok
    /\ DOMAIN store.query_result_index = {1}
    /\ \E t \in Threads :
          /\ Returned(t, QueryResults)
          /\ th[t].id = 0
          /\ th[t].result = None

\* the step is one of serialize: it starts serialize or is taken inside it
SerializeStep(before, after) == after = "serializing" \/ before = "serializing"

RECURSIVE RawItems(_, _, _)
RawItems(bytes, pos, count) ==
    IF count = 0 THEN <<>>
    ELSE LET variant == ReadLeb(bytes, pos)
             val     == ReadLeb(bytes, variant.pos)
         IN  <<[variant |-> variant.val, val |-> val.val]>>
                 \o RawItems(bytes, val.pos, count - 1)

\* the items of the tagged record that starts at start
RecordItems(bytes, start) ==
    LET tag   == ReadLeb(bytes, start)
        count == ReadLeb(bytes, tag.pos)
    IN  RawItems(bytes, count.pos, count.val)

\* the remap holds a current number for the previous session's number c
Remapped(map, c) == c \in DOMAIN map /\ IsSome(map[c])

\* the positions of the crate numbers among the items
CnumPlaces(items) ==
    { k \in 1..Len(items) : items[k].variant = VariantIdx("Cnum") }

\* C33: decoding a crate number of the previous session whose remap entry
\* is absent aborts, and a crate number is returned only when the remap
\* holds a current number for it.  For every lookup that found a record: if
\* the record, as the bytes hold it, names a crate number for which the
\* retained remap has no current number (the entry is None or the table is
\* shorter), the lookup has aborted the process and returned nothing;
\* otherwise every crate number of the value returned is the current number
\* the remap holds for the number in the bytes.
C33_AbsentCrateAborts ==
    \A t \in Threads :
        Returned(t, QueryResults) /\ th[t].result # None =>
            /\ IsSome(store.cnum_map)
            /\ Let(RecordItems(store.serialized_data,
                               store.query_result_index[th[t].id]),
                   LAMBDA items :
                      IF \E k \in CnumPlaces(items) :
                            ~Remapped(store.cnum_map.some, items[k].val)
                      THEN th[t].result = Abort /\ phase = "aborted"
                      ELSE /\ IsSome(th[t].result)
                           /\ Len(th[t].result.some) = Len(items)
                           /\ \A k \in CnumPlaces(items) :
                                 th[t].result.some[k] =
                                     CnumItem(store.cnum_map.some[items[k].val].some))

\* the example of the specification: the file names crate 1, the remap has
\* an entry for it and the entry is None; the lookup has aborted
C33_Witness ==
    /\ phase = "aborted"
    /\ IsSome(store.cnum_map)
    /\ 1 \in DOMAIN store.cnum_map.some
    /\ store.cnum_map.some[1] = None
    /\ \E t \in Threads :
          /\ Returned(t, QueryResults)
          /\ th[t].result = Abort
          /\ \E k \in 1..2 :
                RecordItems(store.serialized_data,
                            store.query_result_index[th[t].id])[k]
                    = [variant |-> VariantIdx("Cnum"), val |-> 1]

=============================================================================
